---- MODULE Spec2Model ----
(***************************************************************************)
(* server-kit: the middleware layers placed around a request handler.      *)
(*                                                                         *)
(* Each layer is modelled as the state machine of its tower Service: the   *)
(* synchronous part of call() builds a future, the first poll of the       *)
(* future runs the async block up to its await on the inner service, the   *)
(* inner service resolves, and a future may be dropped at any await.       *)
(*                                                                         *)
(* One specification per layer; the variables of the other layers stay at  *)
(* their initial values in it.                                             *)
(*   Spec      the rate-limit layer   (server-kit/src/layer/ratelimit.rs)  *)
(*   SpecAuth  the authentication layer and the gRPC auth interceptor      *)
(*   SpecJwt   the authentication layer with JwtConfig as its validator    *)
(*   SpecPipe  a router built with the RouterExt / AuthExt methods (or a   *)
(*             tonic server with its default layers) serving requests      *)
(*   SpecJsonError  a service wrapped in JsonErrorLayer alone              *)
(*   SpecTrace      a service wrapped in the gRPC TraceLayer alone         *)
(*   SpecConfig     ConfigBuilder, from new() to build()                   *)
(*   SpecRateLimitNew  a router given with_rate_limit, then serving        *)
(*   SpecSvc        poll_ready and call on a middleware service            *)
(***************************************************************************)
EXTENDS Integers, Sequences, FiniteSets, TLC

\* ---------------------------------------------------------------- bounds
MaxCapacity == 2
MaxPeriod == 2
MaxTime == 3
NumRequests == 3
NumAuthRequests == 2
NumPipeRequests == 1

\* ------------------------------------------------------------- variables
VARIABLES
    capacity,   \* Quota::max_burst: num_requests of RateLimitLayer::new
    period,     \* Quota::replenish_1_per: per_duration of RateLimitLayer::new (ticks)
    now,        \* the limiter's clock, ticks since the limiter was created
    limiter,    \* the state all clones of the service share: Arc<DefaultDirectRateLimiter>
    rq,         \* rate-limit layer: per request, the state of the future call() returned
    rlInner,    \* rate-limit layer: the requests the inner service was called with
    validator,  \* auth layer: the TokenValidator held by the layer
    aq,         \* auth layer: per request, the request and the state of its future
    features,   \* pipeline: cargo features and ServerConfig the router is built with
    stack,      \* pipeline: the layers applied to the router, innermost first
    serving,    \* pipeline: the router has been handed to serve()
    nextUuid,   \* pipeline: the number of identifiers Uuid::new_v4 has produced
    pq,         \* pipeline: per request, its way through the layers
    cfg,        \* start-up: the ConfigBuilder, the files and variables it reads, its result
    rlArgs,     \* start-up: the arguments of with_rate_limit and how construction ended
    svc         \* a middleware service and its clones: their inner service instances

rlVars == <<capacity, period, now, limiter, rq, rlInner>>
authVars == <<validator, aq>>
pipeVars == <<features, stack, serving, nextUuid, pq>>
vars == <<capacity, period, now, limiter, rq, rlInner, validator, aq,
          features, stack, serving, nextUuid, pq, cfg, rlArgs, svc>>

\* ------------------------------------------------------------- responses
\* A Result<Response, S::Error>: ok = FALSE is Err(e) of the inner service.
NoResult == [ok |-> TRUE, status |-> 0, contentType |-> "", body |-> <<>>]
InnerErr == [ok |-> FALSE, status |-> 0, contentType |-> "", body |-> <<>>]
InnerOk(s) == [ok |-> TRUE, status |-> s, contentType |-> "text/plain", body |-> <<"handler">>]

\* What the inner service (the handler) may resolve to.
InnerResults == {InnerOk(200), InnerErr}

\* ============================================================ rate limit
StatusTooManyRequests == 429

\* Texts that the code computes are sequences of characters; the literal
\* "TOO_MANY_REQUESTS" of the rejection body is written the same way.
TOO_MANY_REQUESTS ==
    <<"T", "O", "O", "_", "M", "A", "N", "Y", "_", "R", "E", "Q", "U", "E", "S", "T", "S">>

\* Mutant of RateLimitedResponse: the rejection sent as a plain-text 429.
RateLimitedResponsePlain ==
    [ok |-> TRUE,
     status |-> StatusTooManyRequests,
     contentType |-> "text/plain",
     body |-> <<"Rate limit exceeded">>]

\* (StatusCode::TOO_MANY_REQUESTS, axum::Json(body)).into_response()
\* body = json!({"code": "TOO_MANY_REQUESTS", "message": "Rate limit exceeded"})
RateLimitedResponse ==
    [ok |-> TRUE,
     status |-> StatusTooManyRequests,
     contentType |-> "application/json",
     body |-> <<"code", TOO_MANY_REQUESTS, "message", <<"Rate limit exceeded">>>>]

\* Quota::with_period(per_duration).allow_burst(num_requests): governor
\* replenishes ONE cell every per_duration and lets at most num_requests
\* cells through in a burst.
QuotaReplenish1Per == period
QuotaMaxBurst == capacity

\* Mutant of Replenish: the whole burst is replenished every interval
\* (max_burst cells per replenish interval instead of one).
ReplenishBurstPerPeriod(b, t0) ==
    LET gained == ((t0 - b.since) * QuotaMaxBurst) \div QuotaReplenish1Per
    IN  IF b.cells + gained >= QuotaMaxBurst
        THEN [cells |-> QuotaMaxBurst, since |-> t0]
        ELSE [cells |-> b.cells + gained, since |-> t0]

\* Mutant of Replenish: the refill is not capped at max_burst.
ReplenishUncapped(b, t0) ==
    LET gained == (t0 - b.since) \div QuotaReplenish1Per
    IN  [cells |-> b.cells + gained, since |-> b.since + gained * QuotaReplenish1Per]

\* The limiter is modelled by the contract governor documents for a direct
\* rate limiter: a bucket of at most max_burst cells, full when created,
\* that regains one cell per replenish interval; "since" is when the
\* replenishment now in progress started.
\* The cells a bucket b holds at time t0 (the refill is lazy: it is
\* computed when the bucket is looked at).
Replenish(b, t0) ==
    LET gained == (t0 - b.since) \div QuotaReplenish1Per
    IN  IF b.cells + gained >= QuotaMaxBurst
        THEN [cells |-> QuotaMaxBurst, since |-> t0]
        ELSE [cells |-> b.cells + gained, since |-> b.since + gained * QuotaReplenish1Per]

\* limiter.check().is_ok() at time t0
CheckAllows(b, t0) == Replenish(b, t0).cells >= 1

\* Mutant of Withdraw: the update of the shared state is lost.
WithdrawLost(b, t0) == Replenish(b, t0)

\* the bucket an allowed check leaves: one cell is withdrawn
Withdraw(b, t0) == [Replenish(b, t0) EXCEPT !.cells = @ - 1]

Req == 1..NumRequests

\* pc: where the future is; t0: when its token was withdrawn (-1: none was);
\* out: what the future resolved to.
RlFresh == [pc |-> "none", t0 |-> -1, out |-> NoResult]

RLInit ==
    /\ capacity \in 1..MaxCapacity
    /\ period \in 1..MaxPeriod
    /\ now = 0
    /\ limiter = [cells |-> capacity, since |-> 0]
    /\ rq = [r \in Req |-> RlFresh]
    /\ rlInner = {}

\* Mutant of RLCall: the limiter is checked in call() itself, outside the
\* future.
RLCallEager(r) ==
    /\ rq[r].pc = "none"
    /\ IF r = 1 THEN TRUE ELSE rq[r - 1].pc # "none"
    /\ rq' = [rq EXCEPT ![r].pc = "created"]
    /\ limiter' = IF CheckAllows(limiter, now) THEN Withdraw(limiter, now) ELSE limiter
    /\ UNCHANGED <<capacity, period, now, rlInner>>
    /\ UNCHANGED authVars
    /\ UNCHANGED pipeVars
    /\ UNCHANGED <<cfg, rlArgs, svc>>

\* RateLimitService::call, the synchronous part: the limiter handle and the
\* inner service are moved into a boxed future; nothing else happens yet.
RLCall(r) ==
    /\ rq[r].pc = "none"
    /\ IF r = 1 THEN TRUE ELSE rq[r - 1].pc # "none"
    /\ rq' = [rq EXCEPT ![r].pc = "created"]
    /\ UNCHANGED <<capacity, period, now, limiter, rlInner>>
    /\ UNCHANGED authVars
    /\ UNCHANGED pipeVars
    /\ UNCHANGED <<cfg, rlArgs, svc>>

\* The first poll of the future: limiter.check(), then either the 429
\* response or inner.call(req), whose future is then awaited.
RLPoll(r) ==
    /\ rq[r].pc = "created"
    /\ IF CheckAllows(limiter, now)
       THEN /\ limiter' = Withdraw(limiter, now)
            /\ rq' = [rq EXCEPT ![r] = [pc |-> "inner", t0 |-> now, out |-> NoResult]]
            /\ rlInner' = rlInner \cup {r}
       ELSE /\ limiter' = limiter
            /\ rq' = [rq EXCEPT ![r] = [pc |-> "done", t0 |-> -1, out |-> RateLimitedResponse]]
            /\ rlInner' = rlInner
    /\ UNCHANGED <<capacity, period, now>>
    /\ UNCHANGED authVars
    /\ UNCHANGED pipeVars
    /\ UNCHANGED <<cfg, rlArgs, svc>>

\* inner.call(req).await resolves: its result is the future's result.
RLInnerReturn(r) ==
    /\ rq[r].pc = "inner"
    /\ \E res \in InnerResults :
          rq' = [rq EXCEPT ![r].pc = "done", ![r].out = res]
    /\ UNCHANGED <<capacity, period, now, limiter, rlInner>>
    /\ UNCHANGED authVars
    /\ UNCHANGED pipeVars
    /\ UNCHANGED <<cfg, rlArgs, svc>>

\* The future is dropped before it completed (before its first poll, or
\* while it awaits the inner service).
RLDrop(r) ==
    /\ rq[r].pc \in {"created", "inner"}
    /\ rq' = [rq EXCEPT ![r].pc = "dropped"]
    /\ UNCHANGED <<capacity, period, now, limiter, rlInner>>
    /\ UNCHANGED authVars
    /\ UNCHANGED pipeVars
    /\ UNCHANGED <<cfg, rlArgs, svc>>

\* The clock advances (only the limiter reads it).
Tick ==
    /\ rq # <<>>
    /\ now < MaxTime
    /\ now' = now + 1
    /\ UNCHANGED <<capacity, period, limiter, rq, rlInner>>
    /\ UNCHANGED authVars
    /\ UNCHANGED pipeVars
    /\ UNCHANGED <<cfg, rlArgs, svc>>

\* ================================================================== auth
\* An Option<T> is a sequence of at most one element.
None == <<>>
Some(x) == <<x>>

\* ------------------------------------------------------- header values
\* A header value is a sequence of bytes; OpaqueByte stands for a byte
\* that is not visible ASCII.
OpaqueByte == "\\xFF"
BearerPrefix == <<"B", "e", "a", "r", "e", "r", " ">>

\* HeaderValue::to_str(): Err when a byte is not visible ASCII.
ToStr(v) == IF \E i \in 1..Len(v) : v[i] = OpaqueByte THEN None ELSE Some(v)

\* Mutant of StripPrefix: any scheme is accepted, the credential is what
\* follows the first space.
StripAnyScheme(v, prefix) ==
    IF \E i \in 1..Len(v) : v[i] = " "
    THEN Some(SubSeq(v, (CHOOSE i \in 1..Len(v) :
                            v[i] = " " /\ \A j \in 1..(i - 1) : v[j] # " ") + 1, Len(v)))
    ELSE None

\* str::strip_prefix
StripPrefix(v, prefix) ==
    IF Len(v) >= Len(prefix) /\ SubSeq(v, 1, Len(prefix)) = prefix
    THEN Some(SubSeq(v, Len(prefix) + 1, Len(v)))
    ELSE None

\* Mutant of BearerToken: a missing or unreadable header counts as an
\* empty token.
BearerTokenOrEmpty(req) ==
    LET h == req.headers.authorization
        s == IF h = None THEN None ELSE ToStr(h[1])
    IN  IF s = None THEN Some(<<>>) ELSE StripPrefix(s[1], BearerPrefix)

\* req.headers().get("Authorization").and_then(|v| v.to_str().ok())
\*     .and_then(|v| v.strip_prefix("Bearer "))
BearerToken(req) ==
    LET h == req.headers.authorization
        s == IF h = None THEN None ELSE ToStr(h[1])
    IN  IF s = None THEN None ELSE StripPrefix(s[1], BearerPrefix)

\* The Authorization values requests are drawn from.
AuthorizationValues ==
    { BearerPrefix \o <<"g">>, BearerPrefix \o <<"x">>, BearerPrefix \o <<"e">>,
      BearerPrefix \o <<"f">>, BearerPrefix,
      <<"b", "e", "a", "r", "e", "r", " ", "g">>,
      <<"B", "a", "s", "i", "c", " ", "g">>,
      BearerPrefix \o <<"g", OpaqueByte>> }

Requests ==
    { [method |-> "POST", path |-> "/api",
       headers |-> [authorization |-> a], body |-> "payload"] :
         a \in {None} \cup {Some(v) : v \in AuthorizationValues} }

\* ---------------------------------------------------------- AuthError
MissingToken == [kind |-> "MissingToken", msg |-> ""]
InvalidToken(m) == [kind |-> "InvalidToken", msg |-> m]
TokenExpired == [kind |-> "TokenExpired", msg |-> ""]
Forbidden == [kind |-> "Forbidden", msg |-> ""]
Valid == [kind |-> "Ok", msg |-> ""]

\* impl fmt::Display for AuthError
Display(e) ==
    CASE e.kind = "MissingToken" -> <<"Missing authorization token">>
      [] e.kind = "InvalidToken" -> <<"Invalid token: ", e.msg>>
      [] e.kind = "TokenExpired" -> <<"Token has expired">>
      [] e.kind = "Forbidden" -> <<"Insufficient permissions">>

StatusUnauthorized == 401
StatusForbidden == 403

\* StatusCode::canonical_reason
CanonicalReason(status) ==
    CASE status = 101 -> Some(<<"S", "w", "i", "t", "c", "h", "i", "n", "g", " ",
                                "P", "r", "o", "t", "o", "c", "o", "l", "s">>)
      [] status = 200 -> Some(<<"O", "K">>)
      [] status = 302 -> Some(<<"F", "o", "u", "n", "d">>)
      [] status = 400 -> Some(<<"B", "a", "d", " ", "R", "e", "q", "u", "e", "s", "t">>)
      [] status = 401 -> Some(<<"U", "n", "a", "u", "t", "h", "o", "r", "i", "z", "e", "d">>)
      [] status = 403 -> Some(<<"F", "o", "r", "b", "i", "d", "d", "e", "n">>)
      [] status = 404 -> Some(<<"N", "o", "t", " ", "F", "o", "u", "n", "d">>)
      [] status = 408 -> Some(<<"R", "e", "q", "u", "e", "s", "t", " ",
                                "T", "i", "m", "e", "o", "u", "t">>)
      [] status = 429 -> Some(<<"T", "o", "o", " ", "M", "a", "n", "y", " ",
                                "R", "e", "q", "u", "e", "s", "t", "s">>)
      [] status = 500 -> Some(<<"I", "n", "t", "e", "r", "n", "a", "l", " ",
                                "S", "e", "r", "v", "e", "r", " ",
                                "E", "r", "r", "o", "r">>)
      [] OTHER -> None

LowerCase ==
    <<"a", "b", "c", "d", "e", "f", "g", "h", "i", "j", "k", "l", "m",
      "n", "o", "p", "q", "r", "s", "t", "u", "v", "w", "x", "y", "z">>
UpperCase ==
    <<"A", "B", "C", "D", "E", "F", "G", "H", "I", "J", "K", "L", "M",
      "N", "O", "P", "Q", "R", "S", "T", "U", "V", "W", "X", "Y", "Z">>

\* str::to_uppercase
ToUppercase(s) ==
    [i \in 1..Len(s) |->
        IF \E k \in 1..Len(LowerCase) : LowerCase[k] = s[i]
        THEN UpperCase[CHOOSE k \in 1..Len(LowerCase) : LowerCase[k] = s[i]]
        ELSE s[i]]

\* Mutant of Replace: nothing is replaced.
ReplaceNothing(s, from, to) == s

\* str::replace(from, to) for single characters
Replace(s, from, to) == [i \in 1..Len(s) |-> IF s[i] = from THEN to ELSE s[i]]

\* status.canonical_reason().unwrap_or("ERROR").to_uppercase().replace(' ', "_")
ErrorCode(status) ==
    LET reason == CanonicalReason(status)
    IN  Replace(ToUppercase(IF reason = None THEN <<"E", "R", "R", "O", "R">> ELSE reason[1]),
                " ", "_")

\* Mutant of AuthStatus: every AuthError is answered 401.
AuthStatusAlwaysUnauthorized(e) == StatusUnauthorized

\* the status AuthError::into_response picks
AuthStatus(e) ==
    IF e.kind \in {"MissingToken", "InvalidToken", "TokenExpired"}
    THEN StatusUnauthorized
    ELSE StatusForbidden

\* Mutant of AuthErrorResponse: the validator's error is propagated as the
\* future's Err.
AuthErrorAsErr(e) ==
    [ok |-> FALSE,
     status |-> AuthStatus(e),
     contentType |-> "",
     body |-> <<>>]

\* impl IntoResponse for AuthError, as the Ok(..) the future resolves to
AuthErrorResponse(e) ==
    [ok |-> TRUE,
     status |-> AuthStatus(e),
     contentType |-> "application/json",
     body |-> <<"code", ErrorCode(AuthStatus(e)), "message", Display(e)>>]

\* ------------------------------------------------------------------ JWT
\* Validation::default(): exp is validated with a leeway of 60 seconds.
Leeway == 60

\* The instants (Unix seconds) at which the clock is read; the tokens of
\* JwtTokens were issued at the first one.
JwtInstants == <<100, 101, 160, 161>>
JwtEpoch == JwtInstants[1]
JwtTimes == 0..(JwtInstants[Len(JwtInstants)] + 1000)

\* JwtConfig::new(secret): the secret of this server.
Secret == "k1"

\* Claims::new(sub, expires_in_secs), called at time t
ClaimsNew(sub, expires_in_secs, t) ==
    [sub |-> Some(sub), exp |-> t + expires_in_secs, iat |-> t]

\* serde: Claims as a JSON object, a sequence of keys and values; an
\* Option field that is None is left out.
ClaimsJson(c) ==
    (IF c.sub = None THEN <<>> ELSE <<"sub", c.sub[1]>>)
       \o <<"exp", ToString(c.exp), "iat", ToString(c.iat)>>

\* the value of a key of a JSON object
JsonGet(obj, key) ==
    IF \E i \in 1..Len(obj) : i % 2 = 1 /\ obj[i] = key
    THEN Some(obj[(CHOOSE i \in 1..Len(obj) : i % 2 = 1 /\ obj[i] = key) + 1])
    ELSE None

\* a u64 read from its decimal text
ParseNat(text) == CHOOSE n \in JwtTimes : ToString(n) = text

\* HMAC of header and payload under a secret, kept symbolic: it is equal
\* only for the same secret and the same signed text.
JwtSign(header, payload, secret) == <<secret>> \o header \o payload

\* jsonwebtoken::encode(&Header::default(), claims, key):
\* header "." payload "." signature
JwtEncode(c, secret) ==
    <<"HS256", ".">> \o ClaimsJson(c) \o <<".">>
        \o JwtSign(<<"HS256">>, ClaimsJson(c), secret)

\* JwtConfig::decode::<Claims> at time t, as validate() sees it: Ok, or the
\* AuthError the jsonwebtoken error is mapped to.
JwtDecode(token, secret, t) ==
    LET dots == {i \in 1..Len(token) : token[i] = "."}
    IN  IF Cardinality(dots) # 2
        THEN InvalidToken("InvalidToken")
        ELSE LET d1 == CHOOSE i \in dots : \A j \in dots : i <= j
                 d2 == CHOOSE i \in dots : \A j \in dots : i >= j
                 header == SubSeq(token, 1, d1 - 1)
                 payload == SubSeq(token, d1 + 1, d2 - 1)
                 signature == SubSeq(token, d2 + 1, Len(token))
             IN  CASE header # <<"HS256">> -> InvalidToken("InvalidAlgorithm")
                   [] signature # JwtSign(header, payload, secret) ->
                         InvalidToken("InvalidSignature")
                   [] JsonGet(payload, "sub") = None \/ JsonGet(payload, "exp") = None ->
                         InvalidToken("JSON error: missing field")
                   [] ParseNat(JsonGet(payload, "exp")[1]) < t - Leeway -> TokenExpired
                   [] OTHER -> Valid

\* impl TokenValidator for JwtConfig
JwtValidate(token) == JwtDecode(token, Secret, now)

\* The bearer tokens presented to a server that validates JWTs: two issued
\* by it at JwtEpoch (expiring at once, and one second later), one signed
\* with another secret, one whose exp was changed after signing, one without
\* sub, and one that is no JWT.
JwtTokens ==
    { JwtEncode(ClaimsNew("u1", 0, JwtEpoch), Secret),
      JwtEncode(ClaimsNew("u1", 1, JwtEpoch), Secret),
      JwtEncode(ClaimsNew("u1", 1, JwtEpoch), "k2"),
      <<"HS256", ".">> \o ClaimsJson(ClaimsNew("u1", 1000, JwtEpoch)) \o <<".">>
          \o JwtSign(<<"HS256">>, ClaimsJson(ClaimsNew("u1", 1, JwtEpoch)), Secret),
      JwtEncode([sub |-> None, exp |-> JwtEpoch + 1000, iat |-> JwtEpoch], Secret),
      <<"n", "o", "t", "a", "j", "w", "t">> }

\* ---------------------------------------------------------- validators
\* TokenValidator::validate for the validators the layer is built with:
\* a closure accepting every token, one that knows its tokens, and one
\* whose token store cannot be reached.
Validators == {"accept_all", "by_token", "unavailable"}

Validate(v, token) ==
    CASE v = "accept_all" -> Valid
      [] v = "jwt" -> JwtValidate(token)
      [] v = "unavailable" -> InvalidToken("token store unavailable")
      [] OTHER ->
           CASE token = <<"g">> -> Valid
             [] token = <<"e">> -> TokenExpired
             [] token = <<"f">> -> Forbidden
             [] OTHER -> InvalidToken("unknown token")

\* The requests a server with validator v is sent.
RequestsFor(v) ==
    IF v = "jwt"
    THEN { [method |-> "POST", path |-> "/api",
            headers |-> [authorization |-> Some(BearerPrefix \o t)], body |-> "payload"] :
              t \in JwtTokens }
    ELSE Requests

\* Mutant of ForwardedRequest: the credential is removed before forwarding.
StripCredential(req) == [req EXCEPT !.headers.authorization = None]

\* The request AuthService hands to the inner service: inner.call(req).
ForwardedRequest(req) == req

AReq == 1..NumAuthRequests

\* via: "rest" (AuthService) or "grpc" (the tonic interceptors)
\* token: the bearer token call() extracted; validated: the tokens the
\* validator was asked about, at: when it was asked; innerReq / innerCalls: what the inner service
\* was called with and how often; innerRes: what it resolved to;
\* out: what the future resolved to; gout: what the interceptors returned.
NoRequest == [method |-> "", path |-> "", headers |-> [authorization |-> None], body |-> ""]
NoStatus == [ok |-> TRUE, req |-> NoRequest, code |-> "", message |-> "", validated |-> <<>>]
AuthFresh ==
    [pc |-> "none", via |-> "", req |-> NoRequest, token |-> None, validated |-> <<>>,
     at |-> -1, innerReq |-> None, innerCalls |-> 0, innerRes |-> NoResult, out |-> NoResult,
     gout |-> [fn |-> NoStatus, bearer |-> NoStatus]]

AuthInit ==
    /\ validator \in Validators
    /\ aq = [r \in AReq |-> AuthFresh]

AuthIdle ==
    /\ validator = "accept_all"
    /\ aq = <<>>

RLIdle ==
    /\ capacity = 1
    /\ period = 1
    /\ now = 0
    /\ limiter = [cells |-> 1, since |-> 0]
    /\ rq = <<>>
    /\ rlInner = {}

\* AuthService::call, the synchronous part: the bearer token is read from
\* the request, then validator, inner service and request are moved into
\* the future.
AuthCall(r) ==
    /\ aq[r].pc = "none"
    /\ IF r = 1 THEN TRUE ELSE aq[r - 1].pc # "none"
    /\ \E req \in RequestsFor(validator) :
          aq' = [aq EXCEPT ![r].pc = "created", ![r].via = "rest",
                           ![r].req = req, ![r].token = BearerToken(req)]
    /\ UNCHANGED <<validator>>
    /\ UNCHANGED rlVars
    /\ UNCHANGED pipeVars
    /\ UNCHANGED <<cfg, rlArgs, svc>>

\* The first poll of the future.
AuthPoll(r) ==
    /\ aq[r].pc = "created"
    /\ IF aq[r].token = None
       THEN aq' = [aq EXCEPT ![r].pc = "done",
                             ![r].out = AuthErrorResponse(MissingToken)]
       ELSE LET res == Validate(validator, aq[r].token[1])
            IN  IF res.kind # "Ok"
                THEN aq' = [aq EXCEPT ![r].pc = "done",
                                      ![r].validated = Append(@, aq[r].token[1]),
                                      ![r].at = now,
                                      ![r].out = AuthErrorResponse(res)]
                ELSE aq' = [aq EXCEPT ![r].pc = "inner",
                                      ![r].validated = Append(@, aq[r].token[1]),
                                      ![r].at = now,
                                      ![r].innerReq = Some(ForwardedRequest(aq[r].req)),
                                      ![r].innerCalls = @ + 1]
    /\ UNCHANGED <<validator>>
    /\ UNCHANGED rlVars
    /\ UNCHANGED pipeVars
    /\ UNCHANGED <<cfg, rlArgs, svc>>

\* inner.call(req).await resolves: its result is the future's result.
AuthInnerReturn(r) ==
    /\ aq[r].pc = "inner"
    /\ \E res \in InnerResults :
          aq' = [aq EXCEPT ![r].pc = "done", ![r].innerRes = res, ![r].out = res]
    /\ UNCHANGED <<validator>>
    /\ UNCHANGED rlVars
    /\ UNCHANGED pipeVars
    /\ UNCHANGED <<cfg, rlArgs, svc>>

\* The future is dropped before it completed.
AuthDrop(r) ==
    /\ aq[r].pc \in {"created", "inner"}
    /\ aq' = [aq EXCEPT ![r].pc = "dropped"]
    /\ UNCHANGED <<validator>>
    /\ UNCHANGED rlVars
    /\ UNCHANGED pipeVars
    /\ UNCHANGED <<cfg, rlArgs, svc>>

\* The system clock moves on to the next instant at which it is read.
JwtTick ==
    /\ validator = "jwt"
    /\ \E i \in 1..(Len(JwtInstants) - 1) :
          /\ now = JwtInstants[i]
          /\ now' = JwtInstants[i + 1]
    /\ UNCHANGED <<capacity, period, limiter, rq, rlInner>>
    /\ UNCHANGED authVars
    /\ UNCHANGED pipeVars
    /\ UNCHANGED <<cfg, rlArgs, svc>>

\* --------------------------------------------------- gRPC interceptors
\* TokenValidator::validate of the gRPC crate returns a tonic Status of the
\* validator's own choice.
GrpcValidate(v, token) ==
    LET res == Validate(v, token)
    IN  CASE v = "unavailable" ->
                [ok |-> FALSE, code |-> "Unavailable", message |-> "token store unavailable"]
          [] res.kind = "Ok" -> [ok |-> TRUE, code |-> "Ok", message |-> ""]
          [] res.kind = "Forbidden" ->
                [ok |-> FALSE, code |-> "PermissionDenied", message |-> "forbidden"]
          [] OTHER -> [ok |-> FALSE, code |-> "Unauthenticated", message |-> "bad token"]

\* AuthInterceptor::new(v).into_fn(): the closure reads the bearer token
\* of the request or fails with Status::unauthenticated, then
\* self.validator.validate(token)?, then Ok(req).
AuthInterceptorFn(v, req) ==
    LET token == BearerToken(req)
    IN  IF token = None
        THEN [ok |-> FALSE, req |-> NoRequest, code |-> "Unauthenticated",
              message |-> "Missing authorization header", validated |-> <<>>]
        ELSE LET res == GrpcValidate(v, token[1])
             IN  IF res.ok
                 THEN [ok |-> TRUE, req |-> req, code |-> "Ok", message |-> "",
                       validated |-> <<token[1]>>]
                 ELSE [ok |-> FALSE, req |-> NoRequest, code |-> res.code,
                       message |-> res.message, validated |-> <<token[1]>>]

\* Mutant of BearerAuth: a request without a bearer token is an invalid
\* argument.
BearerAuthInvalidArgument(v, req) ==
    LET token == BearerToken(req)
    IN  IF token = None
        THEN [ok |-> FALSE, req |-> NoRequest, code |-> "InvalidArgument",
              message |-> "Missing authorization header", validated |-> <<>>]
        ELSE LET res == GrpcValidate(v, token[1])
             IN  [ok |-> res.ok, req |-> IF res.ok THEN req ELSE NoRequest,
                  code |-> res.code, message |-> res.message,
                  validated |-> <<token[1]>>]

\* bearer_auth(|t| v.validate(t)): the closure reads the bearer token of
\* the request or fails with Status::unauthenticated, then
\* validate(token)?, then Ok(req).
BearerAuth(v, req) ==
    LET token == BearerToken(req)
        missing == [ok |-> FALSE, req |-> NoRequest, code |-> "Unauthenticated",
                    message |-> "Missing authorization header", validated |-> <<>>]
    IN  IF token = None THEN missing
        ELSE LET res == GrpcValidate(v, token[1])
             IN  [ok |-> res.ok, req |-> IF res.ok THEN req ELSE NoRequest,
                  code |-> res.code, message |-> res.message,
                  validated |-> <<token[1]>>]

\* A gRPC request meets the interceptor; tonic calls the service only with
\* the request of an Ok result.
GrpcIntercept(r) ==
    /\ aq[r].pc = "none"
    /\ IF r = 1 THEN TRUE ELSE aq[r - 1].pc # "none"
    /\ \E req \in RequestsFor(validator) :
          LET res == BearerAuth(validator, req)
          IN  aq' = [aq EXCEPT ![r].pc = "done", ![r].via = "grpc", ![r].req = req,
                               ![r].validated = res.validated,
                               ![r].at = IF res.validated = <<>> THEN -1 ELSE now,
                               ![r].gout = [fn |-> AuthInterceptorFn(validator, req),
                                            bearer |-> res],
                               ![r].innerReq = IF res.ok THEN Some(res.req) ELSE None,
                               ![r].innerCalls = IF res.ok THEN 1 ELSE 0]
    /\ UNCHANGED <<validator>>
    /\ UNCHANGED rlVars
    /\ UNCHANGED pipeVars
    /\ UNCHANGED <<cfg, rlArgs, svc>>

\* =============================================================== pipeline
\* Mutant of Layered: the new layer is put inside the layers applied before.
LayeredInside(router, l) == <<l>> \o router

\* Router::layer(l): the new layer wraps everything applied before it.
Layered(router, l) == Append(router, l)

\* tonic Server::layer(l): Stack::new(l, self.layer), the new layer goes
\* inside the layers applied before it.
ServerLayered(server, l) == <<l>> \o server

Has(router, l) == \E i \in 1..Len(router) : router[i] = l

\* Mutant of DefaultLayers: JsonError is applied first, under the others.
DefaultLayersJsonErrorFirst(router, f) ==
    LET core == Layered(Layered(Layered(Layered(Layered(Layered(router,
                    "JsonError"), "CatchPanic"), "SetRequestId"), "PropagateRequestId"),
                    "Trace"), "Timeout")
        compressed == IF f.compression THEN Layered(core, "Compression") ELSE core
    IN  IF f.cors THEN Layered(compressed, "Cors") ELSE compressed

\* default_layers(router, config)
DefaultLayers(router, f) ==
    LET core == Layered(Layered(Layered(Layered(Layered(router,
                    "CatchPanic"), "SetRequestId"), "PropagateRequestId"),
                    "Trace"), "Timeout")
        compressed == IF f.compression THEN Layered(core, "Compression") ELSE core
        cors == IF f.cors THEN Layered(compressed, "Cors") ELSE compressed
    IN  Layered(cors, "JsonError")

\* ServerExt::with_default_layers of the gRPC crate
GrpcDefaultLayers(server) ==
    ServerLayered(ServerLayered(server, "GrpcRequestId"), "GrpcTrace")

PReq == 1..NumPipeRequests

NoPipeRequest ==
    [method |-> "", path |-> "",
     headers |-> [authorization |-> None, x_request_id |-> None], body |-> ""]
NoPipeResponse ==
    [status |-> 0, contentType |-> "", body |-> <<>>, x_request_id |-> None, by |-> ""]

\* pc: "none", "handler" (the handler was called and is pending), "done";
\* req: the request as it arrived; seen: the request the handler was called
\* with; memo: what each layer keeps in its future for the way back;
\* span: the request_id field of the trace span; log: the layers' effects
\* in the order they happened; hresp: what the handler returned;
\* resp: the response that left the pipeline.
PipeFresh ==
    [pc |-> "none", req |-> NoPipeRequest, seen |-> None, memo |-> <<>>,
     span |-> None, log |-> <<>>, hresp |-> None, resp |-> NoPipeResponse]

PipeIdle ==
    /\ features = [cors |-> FALSE, compression |-> FALSE, production |-> FALSE]
    /\ stack = <<>>
    /\ serving = FALSE
    /\ nextUuid = 0
    /\ pq = <<>>

PipeInit ==
    /\ features \in [cors : BOOLEAN, compression : BOOLEAN, production : BOOLEAN]
    /\ stack = <<>>
    /\ serving = FALSE
    /\ nextUuid = 0
    /\ pq = [r \in PReq |-> PipeFresh]

\* ---------------------------------------------- requests and responses
PipeRequests ==
    { [method |-> "GET", path |-> "/api",
       headers |-> [authorization |-> a, x_request_id |-> x], body |-> ""] :
          a \in {None, Some(BearerPrefix \o <<"g">>)},
          x \in {None, Some(<<"my-custom-id">>), Some(<<>>)} }
    \cup
    { [method |-> "OPTIONS", path |-> "/api",
       headers |-> [authorization |-> None, x_request_id |-> None], body |-> ""] }

\* What the handler does with a request: answer 200 or 404 with a text
\* body, answer 200 with an x-request-id of its own, or panic.
HandlerPanic ==
    [status |-> 0, contentType |-> "", body |-> <<>>, x_request_id |-> None, by |-> "panic"]
HandlerOutcomes ==
    { [status |-> 200, contentType |-> "text/plain", body |-> <<"handler">>,
       x_request_id |-> None, by |-> "handler"],
      [status |-> 404, contentType |-> "text/plain", body |-> <<"no such user">>,
       x_request_id |-> None, by |-> "handler"],
      [status |-> 200, contentType |-> "text/plain", body |-> <<"handler">>,
       x_request_id |-> Some(<<"handler-id">>), by |-> "handler"],
      HandlerPanic }

\* Uuid::new_v4().to_string(): the n-th identifier produced
UuidText(n) == <<"uuid4", "-", ToString(n)>>

\* a Result<Response, _> of the layers above, as a pipeline response
FromLayer(res, l) ==
    [status |-> res.status, contentType |-> res.contentType, body |-> res.body,
     x_request_id |-> None, by |-> l]

\* TimeoutLayer::with_status_code(StatusCode::REQUEST_TIMEOUT, ..)
TimeoutResponse ==
    [status |-> 408, contentType |-> "", body |-> <<>>, x_request_id |-> None, by |-> "Timeout"]

\* CatchPanicLayer::new(): the default panic response
PanicResponse ==
    [status |-> 500, contentType |-> "text/plain; charset=utf-8",
     body |-> <<"Service panicked">>, x_request_id |-> None, by |-> "CatchPanic"]

\* CorsLayer: the answer to a preflight request
PreflightResponse ==
    [status |-> 200, contentType |-> "", body |-> <<>>, x_request_id |-> None, by |-> "Cors"]

\* Mutant of IsError: only the 5xx statuses count as errors.
IsServerError(status) == status >= 500 /\ status <= 599

\* status.is_client_error() || status.is_server_error()
IsError(status) == status >= 400 /\ status <= 599

\* Mutant of IsJson: only the bare media type counts as JSON.
IsJsonExact(contentType) == contentType = "application/json"

\* v.contains("application/json"), for the content types of the model
IsJson(contentType) ==
    contentType \in {"application/json", "application/json; charset=utf-8"}

\* A body whose stream fails while it is read: one chunk, then an error.
FailingBody == <<"partial", "!io error">>

\* Mutant of Collect: the chunks read before the failure are kept.
CollectPartial(body) == Some(body)

\* body.collect().await.map(|b| b.to_bytes()): Err when the stream fails
Collect(body) ==
    IF Len(body) = Len(FailingBody) /\ body = FailingBody THEN None ELSE Some(body)

\* Mutant of Message: the body text is the message in every environment.
MessageFromBody(status, body_text, is_production) ==
    IF body_text = <<>>
    THEN (IF CanonicalReason(status) = None THEN <<"E", "r", "r", "o", "r">>
                                            ELSE CanonicalReason(status)[1])
    ELSE body_text

\* the message of the envelope: the body text, or the canonical reason
Message(status, body_text, is_production) ==
    IF body_text = <<>> \/ is_production
    THEN (IF CanonicalReason(status) = None THEN <<"E", "r", "r", "o", "r">>
                                            ELSE CanonicalReason(status)[1])
    ELSE body_text

\* (status, axum::Json(ErrorResponse::from_status(status, message))).into_response()
IntoResponse(status, message, by) ==
    [status |-> status, contentType |-> "application/json",
     body |-> <<"code", ErrorCode(status), "message", message>>,
     x_request_id |-> None, by |-> by]

\* Mutant of ReplaceHeaders: the new response keeps its own headers.
KeepHeaders(response, parts) == response

\* *response.headers_mut() = parts.headers
ReplaceHeaders(response, parts) ==
    [response EXCEPT !.contentType = parts.contentType,
                     !.x_request_id = parts.x_request_id]

\* Mutant of InsertContentType: the content type is left as it is.
InsertNothing(response, value) == response

\* response.headers_mut().insert(header::CONTENT_TYPE, value)
InsertContentType(response, value) == [response EXCEPT !.contentType = value]

\* Mutant of JsonErrorResponse: the status is not looked at.
JsonErrorIgnoringStatus(resp) ==
    IF resp.by = "err" THEN resp
    ELSE IF IsJson(resp.contentType) THEN resp
    ELSE LET collected == Collect(resp.body)
             body_text == IF collected = None THEN <<>> ELSE collected[1]
             message == Message(resp.status, body_text, features.production)
         IN  InsertContentType(
                 ReplaceHeaders(IntoResponse(resp.status, message, resp.by), resp),
                 "application/json")

\* JsonErrorService::call, after inner.call(req).await: an Err of the inner
\* service is returned as it is, a response that is no error or is JSON
\* already is passed on, any other is rebuilt.
JsonErrorResponse(resp) ==
    IF resp.by = "err" THEN resp
    ELSE IF ~IsError(resp.status) THEN resp
    ELSE IF IsJson(resp.contentType) THEN resp
    ELSE LET collected == Collect(resp.body)
             body_text == IF collected = None THEN <<>> ELSE collected[1]
             message == Message(resp.status, body_text, features.production)
         IN  InsertContentType(
                 ReplaceHeaders(IntoResponse(resp.status, message, resp.by), resp),
                 "application/json")

\* ------------------------------------------------- one layer, going in
\* st: the request as it is now, the shared limiter, the number of uuids
\* produced, the layers' memos, the trace span, the log, and out: the
\* response of the layer that answered itself (with its position).
LayerRequest(l, i, st) ==
    CASE l \in {"SetRequestId", "GrpcRequestId"} ->
            IF st.req.headers.x_request_id = None
            THEN [st EXCEPT !.req.headers.x_request_id = Some(UuidText(st.uuid + 1)),
                            !.uuid = @ + 1]
            ELSE st
      [] l = "PropagateRequestId" ->
            [st EXCEPT !.memo[i] = st.req.headers.x_request_id]
      [] l \in {"Trace", "GrpcTrace"} ->
            [st EXCEPT !.span = Some(IF st.req.headers.x_request_id = None
                                     THEN <<"-">>
                                     ELSE st.req.headers.x_request_id[1])]
      [] l = "Cors" ->
            IF st.req.method = "OPTIONS"
            THEN [st EXCEPT !.out = Some([resp |-> PreflightResponse, at |-> i])]
            ELSE st
      [] l = "RateLimit" ->
            IF CheckAllows(st.limiter, now)
            THEN [st EXCEPT !.limiter = Withdraw(st.limiter, now)]
            ELSE [st EXCEPT !.out = Some([resp |-> FromLayer(RateLimitedResponse, "RateLimit"),
                                          at |-> i])]
      [] l = "Auth" ->
            LET token == BearerToken(st.req)
            IN  IF token = None
                THEN [st EXCEPT !.out = Some([resp |-> FromLayer(AuthErrorResponse(MissingToken),
                                                                 "Auth"),
                                              at |-> i])]
                ELSE LET res == Validate(validator, token[1])
                     IN  IF res.kind # "Ok"
                         THEN [st EXCEPT !.out = Some([resp |-> FromLayer(AuthErrorResponse(res),
                                                                          "Auth"),
                                                       at |-> i])]
                         ELSE st
      [] OTHER -> st

\* The request goes from layer i inwards until a layer answers it itself
\* or the handler is reached.
RECURSIVE Descend(_, _)
Descend(i, st) ==
    IF i = 0 \/ st.out # None THEN st
    ELSE Descend(i - 1,
                 LayerRequest(stack[i], i,
                              [st EXCEPT !.log = Append(@, <<stack[i], "request">>)]))

\* ------------------------------------------------ one layer, going out
LayerResponse(l, memo, resp) ==
    CASE l = "JsonError" -> JsonErrorResponse(resp)
      [] l = "PropagateRequestId" ->
            IF resp.x_request_id # None THEN resp
            ELSE IF memo # None THEN [resp EXCEPT !.x_request_id = memo]
            ELSE resp
      [] l = "CatchPanic" -> IF resp.by = "panic" THEN PanicResponse ELSE resp
      [] OTHER -> resp

\* The response goes from layer i outwards; a panic unwinds through the
\* layers until CatchPanic turns it into a response.
RECURSIVE Ascend(_, _, _, _)
Ascend(i, resp, memo, log) ==
    IF i > Len(stack) THEN [resp |-> resp, log |-> log]
    ELSE IF resp.by = "panic" /\ stack[i] # "CatchPanic"
         THEN Ascend(i + 1, resp, memo, log)
         ELSE Ascend(i + 1, LayerResponse(stack[i], memo[i], resp), memo,
                     Append(log, <<stack[i], "response">>))

\* RouterExt::with_default_layers
PipeWithDefaultLayers ==
    /\ pq # <<>> /\ ~serving
    /\ ~Has(stack, "JsonError") /\ ~Has(stack, "GrpcRequestId")
    /\ stack' = DefaultLayers(stack, features)
    /\ UNCHANGED <<features, serving, nextUuid, pq>>
    /\ UNCHANGED <<rlVars, authVars>>
    /\ UNCHANGED <<cfg, rlArgs, svc>>

\* AuthExt::with_auth
PipeWithAuth ==
    /\ pq # <<>> /\ ~serving
    /\ ~Has(stack, "Auth") /\ ~Has(stack, "GrpcRequestId")
    /\ stack' = Layered(stack, "Auth")
    /\ UNCHANGED <<features, serving, nextUuid, pq>>
    /\ UNCHANGED <<rlVars, authVars>>
    /\ UNCHANGED <<cfg, rlArgs, svc>>

\* RouterExt::with_rate_limit
PipeWithRateLimit ==
    /\ pq # <<>> /\ ~serving
    /\ ~Has(stack, "RateLimit") /\ ~Has(stack, "GrpcRequestId")
    /\ stack' = Layered(stack, "RateLimit")
    /\ UNCHANGED <<features, serving, nextUuid, pq>>
    /\ UNCHANGED <<rlVars, authVars>>
    /\ UNCHANGED <<cfg, rlArgs, svc>>

\* RouterExt::with_metrics: Metrics::new().wrap(router)
PipeWithMetrics ==
    /\ pq # <<>> /\ ~serving
    /\ ~Has(stack, "Metrics") /\ ~Has(stack, "GrpcRequestId")
    /\ stack' = Layered(stack, "Metrics")
    /\ UNCHANGED <<features, serving, nextUuid, pq>>
    /\ UNCHANGED <<rlVars, authVars>>
    /\ UNCHANGED <<cfg, rlArgs, svc>>

\* ServerExt::with_default_layers on a tonic Server
PipeGrpcWithDefaultLayers ==
    /\ pq # <<>> /\ ~serving
    /\ stack = <<>>
    /\ stack' = GrpcDefaultLayers(stack)
    /\ UNCHANGED <<features, serving, nextUuid, pq>>
    /\ UNCHANGED <<rlVars, authVars>>
    /\ UNCHANGED <<cfg, rlArgs, svc>>

\* RouterExt::serve / serve_with: from now on requests arrive.
PipeServe ==
    /\ pq # <<>> /\ ~serving
    /\ serving' = TRUE
    /\ UNCHANGED <<features, stack, nextUuid, pq>>
    /\ UNCHANGED <<rlVars, authVars>>
    /\ UNCHANGED <<cfg, rlArgs, svc>>

\* A request arrives: the first poll of the outermost future runs through
\* the layers until one of them answers or the handler is pending.
PipeArrive(r) ==
    /\ serving
    /\ pq[r].pc = "none"
    /\ IF r = 1 THEN TRUE ELSE pq[r - 1].pc # "none"
    /\ \E req \in PipeRequests :
          LET st == Descend(Len(stack),
                            [req |-> req, limiter |-> limiter, uuid |-> nextUuid,
                             memo |-> [i \in 1..Len(stack) |-> None],
                             span |-> None, log |-> <<>>, out |-> None])
          IN  /\ limiter' = st.limiter
              /\ nextUuid' = st.uuid
              /\ IF st.out = None
                 THEN pq' = [pq EXCEPT ![r] =
                                [pc |-> "handler", req |-> req, seen |-> Some(st.req),
                                 memo |-> st.memo, span |-> st.span,
                                 log |-> Append(st.log, <<"handler", "request">>),
                                 hresp |-> None, resp |-> NoPipeResponse]]
                 ELSE LET up == Ascend(st.out[1].at + 1, st.out[1].resp, st.memo, st.log)
                      IN  pq' = [pq EXCEPT ![r] =
                                    [pc |-> "done", req |-> req, seen |-> None,
                                     memo |-> st.memo, span |-> st.span,
                                     log |-> up.log, hresp |-> None, resp |-> up.resp]]
    /\ UNCHANGED <<features, stack, serving>>
    /\ UNCHANGED <<capacity, period, now, rq, rlInner>>
    /\ UNCHANGED authVars
    /\ UNCHANGED <<cfg, rlArgs, svc>>

\* The handler completes (or panics); the result goes out through the layers.
PipeHandlerReturn(r) ==
    /\ pq[r].pc = "handler"
    /\ \E out \in HandlerOutcomes :
          LET up == Ascend(1, out, pq[r].memo, Append(pq[r].log, <<"handler", "response">>))
          IN  pq' = [pq EXCEPT ![r].pc = "done", ![r].log = up.log,
                               ![r].hresp = Some(out), ![r].resp = up.resp]
    /\ UNCHANGED <<features, stack, serving, nextUuid>>
    /\ UNCHANGED <<rlVars, authVars>>
    /\ UNCHANGED <<cfg, rlArgs, svc>>

\* The timeout elapses while the handler is pending: the timeout layer
\* drops what is inside it and answers 408.
PipeTimeout(r) ==
    /\ pq[r].pc = "handler"
    /\ Has(stack, "Timeout")
    /\ LET at == CHOOSE i \in 1..Len(stack) : stack[i] = "Timeout"
           up == Ascend(at + 1, TimeoutResponse, pq[r].memo,
                        Append(pq[r].log, <<"Timeout", "response">>))
       IN  pq' = [pq EXCEPT ![r].pc = "done", ![r].log = up.log, ![r].resp = up.resp]
    /\ UNCHANGED <<features, stack, serving, nextUuid>>
    /\ UNCHANGED <<rlVars, authVars>>
    /\ UNCHANGED <<cfg, rlArgs, svc>>

\* ------------------------------------------ JsonErrorService on its own
\* Request::builder().uri("/").body(Body::empty()), as in the tests
JsonErrorRequests ==
    { [method |-> "GET", path |-> "/",
       headers |-> [authorization |-> None, x_request_id |-> None], body |-> ""] }

\* Err(e) of the inner service
PipeErr ==
    [status |-> 0, contentType |-> "", body |-> <<>>, x_request_id |-> None, by |-> "err"]

\* What the inner service may resolve to: Err, or a response with any
\* status, with or without a content type, with an empty, a text, a JSON or
\* a failing body, and with or without a further header.
InnerResponses ==
    { [status |-> st, contentType |-> ct, body |-> b, x_request_id |-> x, by |-> "handler"] :
         st \in {101, 200, 302, 400, 404, 500, 599},
         ct \in {"", "text/plain", "application/json", "application/json; charset=utf-8"},
         b \in {<<>>, <<"no such user">>, <<"{\"custom\":\"error\"}">>, FailingBody},
         x \in {None, Some(<<"handler-id">>)} }
    \cup {PipeErr}

\* JsonErrorLayer::new(environment).layer(inner), before any request
JsonErrorInit ==
    /\ features \in [cors : {FALSE}, compression : {FALSE}, production : BOOLEAN]
    /\ stack = Layered(<<>>, "JsonError")
    /\ serving = TRUE
    /\ nextUuid = 0
    /\ pq = [r \in PReq |-> PipeFresh]

\* JsonErrorService::call and the first poll of its future: the inner
\* service is called with the request and is pending.
JsonErrorCall(r) ==
    /\ stack = <<"JsonError">>
    /\ pq[r].pc = "none"
    /\ IF r = 1 THEN TRUE ELSE pq[r - 1].pc # "none"
    /\ \E req \in JsonErrorRequests :
          pq' = [pq EXCEPT ![r].pc = "handler", ![r].req = req, ![r].seen = Some(req),
                           ![r].log = <<<<"JsonError", "request">>, <<"handler", "request">>>>]
    /\ UNCHANGED <<features, stack, serving, nextUuid>>
    /\ UNCHANGED <<rlVars, authVars>>
    /\ UNCHANGED <<cfg, rlArgs, svc>>

\* The inner service resolves: the rest of the async block runs.
JsonErrorInnerReturn(r) ==
    /\ stack = <<"JsonError">>
    /\ pq[r].pc = "handler"
    /\ \E res \in InnerResponses :
          pq' = [pq EXCEPT ![r].pc = "done",
                           ![r].hresp = Some(res),
                           ![r].resp = JsonErrorResponse(res),
                           ![r].log = @ \o <<<<"handler", "response">>,
                                              <<"JsonError", "response">>>>]
    /\ UNCHANGED <<features, stack, serving, nextUuid>>
    /\ UNCHANGED <<rlVars, authVars>>
    /\ UNCHANGED <<cfg, rlArgs, svc>>

\* ------------------------------------------- TraceService of the gRPC crate
TraceRequests ==
    { [method |-> "POST", path |-> "/greeter.Greeter/SayHello",
       headers |-> [authorization |-> None, x_request_id |-> x], body |-> ""] :
          x \in {None, Some(<<"test-id-123">>), Some(<<"id", OpaqueByte>>)} }

\* What the inner service may resolve to: Ok(response) with or without a
\* grpc-status header, or Err(e).
TraceInnerResults ==
    { [ok |-> TRUE, grpc_status |-> g, body |-> "ok"] :
         g \in {None, Some(<<"0">>), Some(<<"13">>), Some(<<OpaqueByte>>)} }
    \cup { [ok |-> FALSE, grpc_status |-> None, body |-> ""] }

\* req.headers().get(REQUEST_ID_HEADER).and_then(|v| v.to_str().ok()).unwrap_or("-")
SpanRequestId(req) ==
    LET h == req.headers.x_request_id
        t == IF h = None THEN None ELSE ToStr(h[1])
    IN  IF t = None THEN <<"-">> ELSE t[1]

\* response.headers().get("grpc-status").and_then(|v| v.to_str().ok()).unwrap_or("0")
GrpcStatusText(response) ==
    LET h == response.grpc_status
        t == IF h = None THEN None ELSE ToStr(h[1])
    IN  IF t = None THEN <<"0">> ELSE t[1]

\* an entry of the log that is no event
Mark(kind) ==
    [kind |-> kind, level |-> "", status |-> None, latency_ms |-> 0, message |-> ""]

\* Mutant of CompletionEvents: only an Ok result is logged.
CompletionEventsOkOnly(result, latency_ms) ==
    IF result.ok
    THEN << [kind |-> "event", level |-> "INFO", status |-> Some(GrpcStatusText(result)),
             latency_ms |-> latency_ms, message |-> "gRPC"] >>
    ELSE << >>

\* match &result { Ok(response) => tracing::info!(..), Err(_) => tracing::error!(..) }
CompletionEvents(result, latency_ms) ==
    IF result.ok
    THEN << [kind |-> "event", level |-> "INFO", status |-> Some(GrpcStatusText(result)),
             latency_ms |-> latency_ms, message |-> "gRPC"] >>
    ELSE << [kind |-> "event", level |-> "ERROR", status |-> None,
             latency_ms |-> latency_ms, message |-> "gRPC error"] >>

\* Mutant of TraceReturn: a response without grpc-status is given one.
TraceReturnWithStatus(result) ==
    IF result.ok /\ result.grpc_status = None
    THEN [result EXCEPT !.grpc_status = Some(<<"0">>)]
    ELSE result

\* the last expression of the async block: result
TraceReturn(result) == result

\* TraceLayer::new().layer(inner), before any request
TraceInit ==
    /\ features = [cors |-> FALSE, compression |-> FALSE, production |-> FALSE]
    /\ stack = ServerLayered(<<>>, "GrpcTrace")
    /\ serving = TRUE
    /\ nextUuid = 0
    /\ pq = [r \in PReq |-> PipeFresh]

\* TraceService::call: the span is made from the request, the future is
\* built and returned; nothing of it has run yet.
TraceCall(r) ==
    /\ stack = <<"GrpcTrace">>
    /\ pq[r].pc = "none"
    /\ IF r = 1 THEN TRUE ELSE pq[r - 1].pc # "none"
    /\ \E req \in TraceRequests :
          pq' = [pq EXCEPT ![r].pc = "created", ![r].req = req,
                           ![r].span = Some(SpanRequestId(req))]
    /\ UNCHANGED <<features, stack, serving, nextUuid>>
    /\ UNCHANGED <<rlVars, authVars>>
    /\ UNCHANGED <<cfg, rlArgs, svc>>

\* The first poll of the future: start is taken, the inner service is
\* called with the request and is pending.
TracePoll(r) ==
    /\ stack = <<"GrpcTrace">>
    /\ pq[r].pc = "created"
    /\ pq' = [pq EXCEPT ![r].pc = "handler",
                        ![r].memo = Some(now),
                        ![r].seen = Some(pq[r].req),
                        ![r].log = Append(@, Mark("inner called"))]
    /\ UNCHANGED <<features, stack, serving, nextUuid>>
    /\ UNCHANGED <<rlVars, authVars>>
    /\ UNCHANGED <<cfg, rlArgs, svc>>

\* The inner service resolves: the latency is computed, the completion is
\* logged and the result is returned.
TraceInnerReturn(r) ==
    /\ stack = <<"GrpcTrace">>
    /\ pq[r].pc = "handler"
    /\ \E result \in TraceInnerResults :
          pq' = [pq EXCEPT ![r].pc = "done",
                           ![r].hresp = Some(result),
                           ![r].log = (Append(@, Mark("inner resolved"))
                                          \o CompletionEvents(result, now - pq[r].memo[1]))
                                      \o <<Mark("returned")>>,
                           ![r].resp = TraceReturn(result)]
    /\ UNCHANGED <<features, stack, serving, nextUuid>>
    /\ UNCHANGED <<rlVars, authVars>>
    /\ UNCHANGED <<cfg, rlArgs, svc>>

\* The future is dropped before it completed.
TraceDrop(r) ==
    /\ stack = <<"GrpcTrace">>
    /\ pq[r].pc \in {"created", "handler"}
    /\ pq' = [pq EXCEPT ![r].pc = "dropped"]
    /\ UNCHANGED <<features, stack, serving, nextUuid>>
    /\ UNCHANGED <<rlVars, authVars>>
    /\ UNCHANGED <<cfg, rlArgs, svc>>

\* Instant::now() moves on.
TraceTick ==
    /\ stack = <<"GrpcTrace">>
    /\ now < MaxTime
    /\ now' = now + 1
    /\ UNCHANGED <<capacity, period, limiter, rq, rlInner>>
    /\ UNCHANGED authVars
    /\ UNCHANGED pipeVars
    /\ UNCHANGED <<cfg, rlArgs, svc>>

\* ================================================================ start-up
\* ------------------------------------------------------------ Environment
\* str::to_lowercase
ToLowercase(s) ==
    [i \in 1..Len(s) |->
        IF \E k \in 1..Len(UpperCase) : UpperCase[k] = s[i]
        THEN LowerCase[CHOOSE k \in 1..Len(UpperCase) : UpperCase[k] = s[i]]
        ELSE s[i]]

\* Mutant of EnvironmentFromStr: the string is compared as it is.
EnvironmentFromStrExact(s) ==
    IF s \in {<<"p", "r", "o", "d", "u", "c", "t", "i", "o", "n">>, <<"p", "r", "o", "d">>}
    THEN "Production"
    ELSE "Development"

\* impl FromStr for Environment: Ok(..) always
EnvironmentFromStr(s) ==
    IF ToLowercase(s) \in {<<"p", "r", "o", "d", "u", "c", "t", "i", "o", "n">>, <<"p", "r", "o", "d">>}
    THEN "Production"
    ELSE "Development"

\* impl Default for Environment
EnvironmentDefault == "Development"

\* The values the environment variable may hold.
EnvStrings ==
    { <<"p", "r", "o", "d", "u", "c", "t", "i", "o", "n">>,
      <<"P", "r", "o", "d", "u", "c", "t", "i", "o", "n">>,
      <<"P", "R", "O", "D">>,
      <<"d", "e", "v">>,
      <<>>,
      <<"p", "r", "o", "d", "u", "c", "t", "i", "o", "n", "s">> }

\* ---------------------------------------------------------- ConfigBuilder
\* A path is its file name, a sequence of characters; all files are in
\* one directory: config.toml, app.JSON, local.yml, .env, app.env and
\* notes.txt.
Paths ==
    { <<"c", "o", "n", "f", "i", "g", ".", "t", "o", "m", "l">>,
      <<"a", "p", "p", ".", "J", "S", "O", "N">>,
      <<"l", "o", "c", "a", "l", ".", "y", "m", "l">>,
      <<".", "e", "n", "v">>,
      <<"a", "p", "p", ".", "e", "n", "v">>,
      <<"n", "o", "t", "e", "s", ".", "t", "x", "t">> }

\* The files whose content cannot be parsed, when they exist.
Malformed == {<<"l", "o", "c", "a", "l", ".", "y", "m", "l">>}

\* Path::extension: what follows the last "." of the file name, unless
\* there is none or the only one is the first character.
Extension(path) ==
    LET dots == {i \in 1..Len(path) : path[i] = "."}
    IN  IF dots = {} THEN None
        ELSE LET last == CHOOSE i \in dots : \A j \in dots : j <= i
             IN  IF last = 1 THEN None ELSE Some(SubSeq(path, last + 1, Len(path)))

\* ConfigFormat::from_path
ConfigFormatFromPath(path) ==
    LET ext == Extension(path)
    IN  IF ext = None THEN None
        ELSE LET e == ToLowercase(ext[1])
             IN  CASE e = <<"e", "n", "v">> -> Some("DotEnv")
                   [] e = <<"t", "o", "m", "l">> -> Some("Toml")
                   [] e \in {<<"y", "a", "m", "l">>, <<"y", "m", "l">>} -> Some("Yaml")
                   [] e = <<"j", "s", "o", "n">> -> Some("Json")
                   [] OTHER -> None

\* file_name.starts_with(".env") || file_name == "env"
IsDotenvName(file_name) ==
    \/ (Len(file_name) >= 4 /\ SubSeq(file_name, 1, 4) = <<".", "e", "n", "v">>)
    \/ file_name = <<"e", "n", "v">>

\* Mutant of MainConfigFile: the first structured file is kept.
FirstConfigFile(config_files) ==
    LET structured == {i \in 1..Len(config_files) :
                          /\ ConfigFormatFromPath(config_files[i]) # None
                          /\ ConfigFormatFromPath(config_files[i]) # Some("DotEnv")}
    IN  IF structured = {} THEN None
        ELSE Some(config_files[CHOOSE i \in structured : \A j \in structured : i <= j])

\* The loop of build over config_files: main_config_file at its end.
RECURSIVE MainConfigFile(_)
MainConfigFile(config_files) ==
    IF config_files = <<>> THEN None
    ELSE LET n == Len(config_files)
             path == config_files[n]
             format == ConfigFormatFromPath(path)
         IN  IF format # None /\ format # Some("DotEnv")
             THEN Some(path)
             ELSE MainConfigFile(SubSeq(config_files, 1, n - 1))

\* The loop of build over config_files: the files given to dotenvy::from_path.
DotenvLoaded(config_files, disk) ==
    SelectSeq(config_files,
              LAMBDA path :
                 /\ path \in disk
                 /\ \/ ConfigFormatFromPath(path) = Some("DotEnv")
                    \/ (ConfigFormatFromPath(path) = None /\ IsDotenvName(path)))

\* The environment field after deserialization: the variable's value
\* parsed, or the default.
ConfigEnvironment(app_env) ==
    IF app_env = None THEN EnvironmentDefault ELSE EnvironmentFromStr(app_env[1])

\* load_from_env
LoadFromEnv(app_env) ==
    [kind |-> "Ok", file |-> None, environment |-> ConfigEnvironment(app_env)]

\* load_config_file
LoadConfigFile(path, disk, app_env) ==
    IF path \notin disk
    THEN [kind |-> "NotFound", file |-> Some(path), environment |-> ""]
    ELSE IF path \in Malformed
         THEN [kind |-> "Parse", file |-> Some(path), environment |-> ""]
         ELSE [kind |-> "Ok", file |-> Some(path), environment |-> ConfigEnvironment(app_env)]

\* ConfigBuilder::build, as a function of the builder and what it reads
Build(config_files, disk, app_env) ==
    LET main_config_file == MainConfigFile(config_files)
    IN  IF main_config_file = None
        THEN LoadFromEnv(app_env)
        ELSE LoadConfigFile(main_config_file[1], disk, app_env)

MaxFiles == 2

\* nothing is being configured
StartIdle ==
    /\ cfg = [load_default_dotenv |-> FALSE, config_files |-> <<>>, disk |-> {},
              app_env |-> None, dotenv |-> <<>>, result |-> None]
    /\ rlArgs = None

\* no middleware service is being driven
SvcIdle ==
    svc = [kind |-> "", handles |-> <<>>, ready |-> <<>>, invoked |-> <<>>]

\* ConfigBuilder::new(), with some files on disk and the variable set or not
ConfigInit ==
    /\ \E disk \in SUBSET Paths, app_env \in {None} \cup {Some(e) : e \in EnvStrings} :
          cfg = [load_default_dotenv |-> FALSE, config_files |-> <<>>, disk |-> disk,
                 app_env |-> app_env, dotenv |-> <<>>, result |-> None]
    /\ rlArgs = None

\* ConfigBuilder::with_dotenv
WithDotenv ==
    /\ cfg.result = None
    /\ cfg' = [cfg EXCEPT !.load_default_dotenv = TRUE]
    /\ UNCHANGED <<rlArgs, svc>>
    /\ UNCHANGED <<rlVars, authVars, pipeVars>>

\* ConfigBuilder::with_config_file
WithConfigFile(path) ==
    /\ cfg.result = None
    /\ Len(cfg.config_files) < MaxFiles
    /\ cfg' = [cfg EXCEPT !.config_files = Append(@, path)]
    /\ UNCHANGED <<rlArgs, svc>>
    /\ UNCHANGED <<rlVars, authVars, pipeVars>>

\* ConfigBuilder::build
ConfigBuild ==
    /\ cfg.result = None
    /\ cfg' = [cfg EXCEPT !.dotenv = DotenvLoaded(cfg.config_files, cfg.disk),
                          !.result = Some(Build(cfg.config_files, cfg.disk, cfg.app_env))]
    /\ UNCHANGED <<rlArgs, svc>>
    /\ UNCHANGED <<rlVars, authVars, pipeVars>>

\* --------------------------------------------------------- with_rate_limit
\* A u64 is written as two 32-bit words: its value is hi * 2^32 + lo.
U64Values == { [hi |-> h, lo |-> l] : h \in {0, 1}, l \in {0, 1, 2} }

\* num_requests as u32: the low 32 bits
AsU32(n) == n.lo

\* RouterExt::with_rate_limit(num_requests, per_duration), num_requests > 0:
\* RateLimitLayer::new(num_requests as u32, per_duration) builds the limiter,
\* or panics with "num_requests must be > 0"; the layer then serves.
WithRateLimit(num_requests, per_duration) ==
    /\ rlArgs = None
    /\ num_requests.hi > 0 \/ num_requests.lo > 0
    /\ IF AsU32(num_requests) = 0
       THEN /\ rlArgs' = Some([num_requests |-> num_requests, per_duration |-> per_duration,
                               outcome |-> "panic"])
            /\ UNCHANGED <<capacity, period, limiter, rq>>
       ELSE /\ rlArgs' = Some([num_requests |-> num_requests, per_duration |-> per_duration,
                               outcome |-> "built"])
            /\ capacity' = AsU32(num_requests)
            /\ period' = per_duration
            /\ limiter' = [cells |-> AsU32(num_requests), since |-> now]
            /\ rq' = [r \in {1} |-> RlFresh]
    /\ UNCHANGED <<now, rlInner>>
    /\ UNCHANGED <<cfg, svc>>
    /\ UNCHANGED <<authVars, pipeVars>>

\* ------------------------------------- poll_ready and call of a middleware
MaxInstances == 4

\* the middleware services; each holds its inner service the same way
ServiceKinds == {"Auth", "RateLimit", "JsonError", "RequestId", "Trace", "Metrics"}

\* Mutant of Replaced: the clone is moved into the future, the instance
\* that was polled stays in the service.
ReplacedByClone(inner, clone) == [taken |-> clone, left |-> inner]

\* let clone = self.inner.clone();
\* let mut inner = std::mem::replace(&mut self.inner, clone);
Replaced(inner, clone) == [taken |-> inner, left |-> clone]

\* Layer::layer(inner): one service holding inner service instance 1,
\* which has not been polled.
SvcInit ==
    \E k \in ServiceKinds :
        svc = [kind |-> k, handles |-> <<1>>, ready |-> <<FALSE>>, invoked |-> <<>>]

\* poll_ready of service h returns Ready: self.inner.poll_ready(cx) did.
SvcPollReady(h) ==
    /\ ~svc.ready[svc.handles[h]]
    /\ svc' = [svc EXCEPT !.ready[svc.handles[h]] = TRUE]
    /\ UNCHANGED <<cfg, rlArgs>>
    /\ UNCHANGED <<rlVars, authVars, pipeVars>>

\* call of service h, after its poll_ready returned Ready (the caller
\* keeps the contract of tower::Service): the inner service is cloned, one
\* instance is moved into the future and the other stays in the service.
\* The future calls the instance it holds, unless the layer answers the
\* request itself, which only the auth and rate-limit services do.
SvcCall(h, forward) ==
    /\ svc.ready[svc.handles[h]]
    /\ Len(svc.ready) < MaxInstances
    /\ forward \/ svc.kind \in {"Auth", "RateLimit"}
    /\ LET clone == Len(svc.ready) + 1
           r == Replaced(svc.handles[h], clone)
           ready == Append(svc.ready, FALSE)
       IN  svc' = [svc EXCEPT !.handles[h] = r.left,
                              !.ready = [ready EXCEPT ![r.taken] = FALSE],
                              !.invoked = IF forward
                                          THEN Append(@, [service |-> h, instance |-> r.taken,
                                                          ready |-> ready[r.taken],
                                                          polled |-> svc.handles[h]])
                                          ELSE @]
    /\ UNCHANGED <<cfg, rlArgs>>
    /\ UNCHANGED <<rlVars, authVars, pipeVars>>

\* #[derive(Clone)]: service h is cloned, the clone holds a clone of the
\* inner service.
SvcClone(h) ==
    /\ Len(svc.ready) < MaxInstances
    /\ svc' = [svc EXCEPT !.handles = Append(@, Len(svc.ready) + 1),
                          !.ready = Append(@, FALSE)]
    /\ UNCHANGED <<cfg, rlArgs>>
    /\ UNCHANGED <<rlVars, authVars, pipeVars>>

\* ========================================================= specifications
Init == RLInit /\ AuthIdle /\ PipeIdle /\ StartIdle /\ SvcIdle

Next ==
    \/ \E r \in DOMAIN rq : RLCall(r)
    \/ \E r \in DOMAIN rq : RLPoll(r)
    \/ \E r \in DOMAIN rq : RLInnerReturn(r)
    \/ \E r \in DOMAIN rq : RLDrop(r)
    \/ Tick

\* the rate-limit layer
Spec == Init /\ [][Next]_vars

InitAuth == RLIdle /\ AuthInit /\ PipeIdle /\ StartIdle /\ SvcIdle

NextAuth ==
    \/ \E r \in DOMAIN aq : AuthCall(r)
    \/ \E r \in DOMAIN aq : AuthPoll(r)
    \/ \E r \in DOMAIN aq : AuthInnerReturn(r)
    \/ \E r \in DOMAIN aq : AuthDrop(r)
    \/ \E r \in DOMAIN aq : GrpcIntercept(r)

\* the authentication layer and interceptors
SpecAuth == InitAuth /\ [][NextAuth]_vars

InitJwt ==
    /\ capacity = 1
    /\ period = 1
    /\ limiter = [cells |-> 1, since |-> 0]
    /\ rq = <<>>
    /\ rlInner = {}
    /\ now = JwtEpoch
    /\ validator = "jwt"
    /\ aq = [r \in AReq |-> AuthFresh]
    /\ PipeIdle
    /\ StartIdle
    /\ SvcIdle

NextJwt ==
    \/ \E r \in DOMAIN aq : AuthCall(r)
    \/ \E r \in DOMAIN aq : AuthPoll(r)
    \/ \E r \in DOMAIN aq : AuthInnerReturn(r)
    \/ \E r \in DOMAIN aq : AuthDrop(r)
    \/ JwtTick

\* AuthService with a JwtConfig as its validator
SpecJwt == InitJwt /\ [][NextJwt]_vars

InitPipe ==
    /\ capacity = 1
    /\ period = 1
    /\ now = 0
    /\ limiter = [cells |-> 1, since |-> 0]
    /\ rq = <<>>
    /\ rlInner = {}
    /\ validator = "by_token"
    /\ aq = <<>>
    /\ PipeInit
    /\ StartIdle
    /\ SvcIdle

NextPipe ==
    \/ PipeWithDefaultLayers
    \/ PipeWithAuth
    \/ PipeWithRateLimit
    \/ PipeWithMetrics
    \/ PipeGrpcWithDefaultLayers
    \/ PipeServe
    \/ \E r \in DOMAIN pq : PipeArrive(r)
    \/ \E r \in DOMAIN pq : PipeHandlerReturn(r)
    \/ \E r \in DOMAIN pq : PipeTimeout(r)

\* a router (or tonic server) built with the extension methods, then serving
SpecPipe == InitPipe /\ [][NextPipe]_vars

InitJsonError ==
    /\ capacity = 1
    /\ period = 1
    /\ now = 0
    /\ limiter = [cells |-> 1, since |-> 0]
    /\ rq = <<>>
    /\ rlInner = {}
    /\ validator = "by_token"
    /\ aq = <<>>
    /\ JsonErrorInit
    /\ StartIdle
    /\ SvcIdle

NextJsonError ==
    \/ \E r \in DOMAIN pq : JsonErrorCall(r)
    \/ \E r \in DOMAIN pq : JsonErrorInnerReturn(r)

\* a service wrapped in JsonErrorLayer alone
SpecJsonError == InitJsonError /\ [][NextJsonError]_vars

InitTrace ==
    /\ capacity = 1
    /\ period = 1
    /\ now = 0
    /\ limiter = [cells |-> 1, since |-> 0]
    /\ rq = <<>>
    /\ rlInner = {}
    /\ validator = "by_token"
    /\ aq = <<>>
    /\ TraceInit
    /\ StartIdle
    /\ SvcIdle

NextTrace ==
    \/ \E r \in DOMAIN pq : TraceCall(r)
    \/ \E r \in DOMAIN pq : TracePoll(r)
    \/ \E r \in DOMAIN pq : TraceInnerReturn(r)
    \/ \E r \in DOMAIN pq : TraceDrop(r)
    \/ TraceTick

\* a service wrapped in the gRPC TraceLayer alone
SpecTrace == InitTrace /\ [][NextTrace]_vars

InitConfig == RLIdle /\ AuthIdle /\ PipeIdle /\ ConfigInit /\ SvcIdle

NextConfig ==
    \/ WithDotenv
    \/ \E path \in Paths : WithConfigFile(path)
    \/ ConfigBuild

\* ServerConfig::builder() ... .build()
SpecConfig == InitConfig /\ [][NextConfig]_vars

InitRateLimitNew == RLIdle /\ AuthIdle /\ PipeIdle /\ StartIdle /\ SvcIdle

NextRateLimitNew ==
    \/ \E n \in U64Values, per \in 1..MaxPeriod : WithRateLimit(n, per)
    \/ \E r \in DOMAIN rq : RLCall(r)
    \/ \E r \in DOMAIN rq : RLPoll(r)
    \/ \E r \in DOMAIN rq : RLInnerReturn(r)
    \/ \E r \in DOMAIN rq : RLDrop(r)
    \/ Tick

\* a router given a rate limit with with_rate_limit, then serving
SpecRateLimitNew == InitRateLimitNew /\ [][NextRateLimitNew]_vars

InitSvc == RLIdle /\ AuthIdle /\ PipeIdle /\ StartIdle /\ SvcInit

NextSvc ==
    \/ \E h \in DOMAIN svc.handles : SvcPollReady(h)
    \/ \E h \in DOMAIN svc.handles, forward \in BOOLEAN : SvcCall(h, forward)
    \/ \E h \in DOMAIN svc.handles : SvcClone(h)

\* a middleware service and its clones, driven by their callers
SpecSvc == InitSvc /\ [][NextSvc]_vars

InitGate == Init \/ InitAuth

NextGate == Next \/ NextAuth

\* a service gated by either layer
SpecGate == InitGate /\ [][NextGate]_vars

\* ===================================================== rate-limit claims
\* The requests that withdrew a token and were handed to the inner service.
Forwarded == {r \in DOMAIN rq : rq[r].t0 >= 0}

\* The requests the layer answered itself.
Rejected == {r \in DOMAIN rq : rq[r].pc = "done" /\ rq[r].t0 = -1}

\* The requests forwarded in the window of length period that starts at s.
AdmittedInWindow(s) == {r \in DOMAIN rq : rq[r].t0 >= s /\ rq[r].t0 < s + period}

\* The cells the bucket holds at time t.
TokensAt(t) == Replenish(limiter, t).cells

\* C1: a burst of capacity + 1 requests, polled in any order before one
\* refill interval has elapsed on the limiter's clock: exactly capacity of
\* them reach the inner service and the remaining one is answered 429.
C1_BurstAdmitsExactlyCapacity ==
    (now < period /\ Cardinality(Forwarded \cup Rejected) = capacity + 1)
        => /\ Cardinality(Forwarded) = capacity
           /\ Forwarded = rlInner
           /\ Cardinality(Rejected) = 1
           /\ \A r \in Rejected : rq[r].out.ok /\ rq[r].out.status = 429

\* C1 witness: a burst of 3 with capacity 2, the rejected request decided
\* while an admitted one is still awaiting the inner service.
C1_Witness ==
    /\ capacity = 2
    /\ now < period
    /\ Cardinality(Forwarded) = 2
    /\ Cardinality(Rejected) = 1
    /\ \E r \in Forwarded : rq[r].pc = "inner"

\* C2: in no window of length period are more than capacity requests
\* forwarded to the inner service, whatever the interleaving of requests
\* and the passage of time.
C2_WindowNeverExceedsCapacity ==
    \A s \in 0..now : Cardinality(AdmittedInWindow(s)) <= capacity

\* C2 witness: after a burst at the creation of the limiter, a later window
\* is filled to capacity by cells regained through refills.
C2_Witness ==
    /\ capacity = 2
    /\ \E s \in 1..now : Cardinality(AdmittedInWindow(s)) = capacity
    /\ \E r \in Forwarded : rq[r].t0 = 0
    /\ Cardinality(AdmittedInWindow(0)) <= capacity

\* C3: the bucket never holds fewer than 0 or more than capacity cells,
\* neither as stored nor as replenished up to the present.
C3_TokensWithinBounds ==
    /\ limiter.cells >= 0 /\ limiter.cells <= capacity
    /\ TokensAt(now) >= 0 /\ TokensAt(now) <= capacity

\* C3 witness: a withdrawal was refused at 0 cells, and later more refill
\* intervals have elapsed than the bucket has room for.
C3_Witness ==
    /\ Rejected # {}
    /\ limiter.cells + ((now - limiter.since) \div period) > capacity

\* C4: the bucket changes only in the step in which a future, being polled,
\* withdraws one whole cell for its request; creating a future and dropping
\* one (before its first poll or while it awaits the inner service) leave
\* the bucket as it is, and no request withdraws twice.
C4_CancellationKeepsBucketConsistent ==
    /\ [][limiter' # limiter =>
            \E r \in DOMAIN rq :
               /\ rq[r].pc = "created" /\ rq'[r].pc = "inner"
               /\ rq[r].t0 = -1 /\ rq'[r].t0 = now
               /\ limiter' = [Replenish(limiter, now) EXCEPT !.cells = @ - 1]]_vars
    /\ [][\A r \in DOMAIN rq :
            rq'[r].pc = "dropped" /\ rq[r].pc # "dropped"
               => limiter' = limiter /\ rq'[r].t0 = rq[r].t0]_vars
    /\ [](now < period => limiter.cells = capacity - Cardinality(Forwarded))

\* C4 witness: one future dropped before its first poll (no cell taken) and
\* one dropped while awaiting the inner service (one cell taken).
C4_Witness ==
    /\ now < period
    /\ \E r1, r2 \in DOMAIN rq :
          /\ rq[r1].pc = "dropped" /\ rq[r1].t0 = -1
          /\ rq[r2].pc = "dropped" /\ rq[r2].t0 >= 0
    /\ limiter.cells = capacity - 1

\* C5 (as claimed): once the bucket is exhausted, one full period without
\* requests restores all capacity cells.
C5_FullPeriodRestoresAll ==
    TokensAt(now) = 0 => Replenish(limiter, now + period).cells = capacity

\* C6 (as claimed): a request that arrives when the limit is exhausted is
\* not rejected: every request the layer completes was forwarded to the
\* handler.
C6_ExhaustedRequestIsServed ==
    \A r \in DOMAIN rq : rq[r].pc = "done" => r \in rlInner

\* C7: a request polled when the bucket holds no cell is completed at once
\* with status 429, content-type application/json and the body
\* {"code": "TOO_MANY_REQUESTS", "message": "Rate limit exceeded"}, and the
\* inner service is not called for it.
C7_RejectionShape ==
    /\ [][\A r \in DOMAIN rq :
            (rq[r].pc = "created" /\ rq'[r].pc \notin {"created", "dropped"} /\ TokensAt(now) = 0)
               => /\ rq'[r].pc = "done"
                  /\ rq'[r].out = [ok |-> TRUE, status |-> 429,
                                   contentType |-> "application/json",
                                   body |-> <<"code",
                                              <<"T", "O", "O", "_", "M", "A", "N", "Y", "_",
                                                "R", "E", "Q", "U", "E", "S", "T", "S">>,
                                              "message", <<"Rate limit exceeded">>>>]
                  /\ rlInner' = rlInner
                  /\ r \notin rlInner']_vars
    /\ [](\A r \in Rejected : r \notin rlInner /\ rq[r].out.status = 429)

\* C7 witness: a rejected request, after the bucket had been refilled once.
C7_Witness ==
    \E r \in Rejected :
        /\ rq[r].out.status = 429
        /\ r \notin rlInner
        /\ \E f \in Forwarded : rq[f].t0 >= period

\* =========================================================== auth claims
\* Why the authentication layer rejects request r ("Ok": it does not).
AuthCause(r) ==
    LET token == BearerToken(aq[r].req)
    IN  IF token = None THEN "MissingToken" ELSE Validate(validator, token[1]).kind

\* C8: a request rejected by the authentication layer (MissingToken,
\* InvalidToken, TokenExpired, Forbidden) or by the rate-limit layer
\* resolves to Ok(response), never to Err, and the inner service is not
\* called for it.
C8_RejectionsAreResponses ==
    /\ \A r \in Rejected :
          rq[r].out.ok /\ rq[r].out.status = 429 /\ r \notin rlInner
    /\ \A r \in DOMAIN aq :
          (aq[r].via = "rest" /\ aq[r].pc = "done" /\ AuthCause(r) # "Ok")
             => /\ aq[r].out.ok
                /\ aq[r].out.status \in {401, 403}
                /\ aq[r].innerCalls = 0
                /\ aq[r].innerReq = None

\* C8 witness: one request rejected as Forbidden, while a forwarded one
\* resolved to the inner service's Err.
C8_Witness ==
    \E r1, r2 \in DOMAIN aq :
        /\ aq[r1].via = "rest" /\ aq[r1].pc = "done" /\ AuthCause(r1) = "Forbidden"
        /\ aq[r1].out.ok /\ aq[r1].out.status = 403
        /\ aq[r2].via = "rest" /\ aq[r2].pc = "done" /\ AuthCause(r2) = "Ok"
        /\ ~aq[r2].out.ok

\* C9: a request without an Authorization entry is answered 401 with code
\* UNAUTHORIZED by AuthService and Unauthenticated by both gRPC
\* interceptors; the validator is not consulted and the inner service is
\* never called, whatever the validator accepts.
C9_MissingCredentialIsUnauthorized ==
    \A r \in DOMAIN aq :
        (aq[r].pc # "none" /\ aq[r].req.headers.authorization = <<>>)
           => /\ aq[r].validated = <<>>
              /\ aq[r].innerCalls = 0
              /\ aq[r].innerReq = <<>>
              /\ aq[r].pc # "inner"
              /\ (aq[r].via = "rest" /\ aq[r].pc = "done")
                    => /\ aq[r].out.ok
                       /\ aq[r].out.status = 401
                       /\ aq[r].out.body[1] = "code"
                       /\ aq[r].out.body[2] =
                             <<"U", "N", "A", "U", "T", "H", "O", "R", "I", "Z", "E", "D">>
              /\ aq[r].via = "grpc"
                    => /\ ~aq[r].gout.bearer.ok
                       /\ aq[r].gout.bearer.code = "Unauthenticated"
                       /\ ~aq[r].gout.fn.ok
                       /\ aq[r].gout.fn.code = "Unauthenticated"

\* C9 witness: with a validator that accepts every token, one REST and one
\* gRPC request without the entry have been answered.
C9_Witness ==
    /\ validator = "accept_all"
    /\ \E r1, r2 \in DOMAIN aq :
          /\ aq[r1].via = "rest" /\ aq[r1].pc = "done"
          /\ aq[r1].req.headers.authorization = <<>>
          /\ aq[r1].out.status = 401
          /\ aq[r2].via = "grpc" /\ aq[r2].pc = "done"
          /\ aq[r2].req.headers.authorization = <<>>

\* C10: when the validator accepts the bearer credential, the inner service
\* is called exactly once, with the request as it arrived (method, path,
\* headers including Authorization, body), and the future resolves to
\* exactly what the inner service resolved to (Ok or Err); the gRPC
\* interceptor returns Ok with the request unchanged.
C10_AcceptedRequestPassesUnchanged ==
    \A r \in DOMAIN aq :
        AuthCause(r) = "Ok"
           => /\ (aq[r].via = "rest" /\ (aq[r].pc \in {"inner", "done"} \/ aq[r].validated # <<>>))
                    => /\ aq[r].innerCalls = 1
                       /\ aq[r].innerReq = <<aq[r].req>>
                       /\ aq[r].validated = BearerToken(aq[r].req)
                       /\ aq[r].pc = "done"
                             => aq[r].out \in InnerResults /\ aq[r].out = aq[r].innerRes
              /\ aq[r].via = "grpc"
                    => /\ aq[r].gout.bearer.ok
                       /\ aq[r].gout.bearer.req = aq[r].req
                       /\ aq[r].innerCalls = 1
                       /\ aq[r].innerReq = <<aq[r].req>>

\* C10 witness: an accepted request whose inner service failed (the Err is
\* returned as it is) and an accepted one answered 200, under a validator
\* that rejects other tokens.
C10_Witness ==
    /\ validator = "by_token"
    /\ \E r1, r2 \in DOMAIN aq :
          /\ aq[r1].via = "rest" /\ aq[r1].pc = "done" /\ AuthCause(r1) = "Ok"
          /\ aq[r1].innerCalls = 1 /\ ~aq[r1].out.ok
          /\ aq[r2].via = "rest" /\ aq[r2].pc = "done" /\ AuthCause(r2) = "Ok"
          /\ aq[r2].out.status = 200

\* C11 (as claimed): every authentication rejection, REST or gRPC and
\* whatever the validator, is 401-equivalent for a missing, malformed or
\* expired credential and 403-equivalent for Forbidden, and nothing else.
C11_OnlyUnauthorizedOrForbidden ==
    \A r \in DOMAIN aq :
        (aq[r].pc = "done" /\ AuthCause(r) # "Ok")
           => /\ aq[r].via = "rest"
                    => aq[r].out.status = IF AuthCause(r) = "Forbidden" THEN 403 ELSE 401
              /\ aq[r].via = "grpc"
                    => /\ aq[r].gout.fn.code =
                             IF AuthCause(r) = "Forbidden" THEN "PermissionDenied"
                                                           ELSE "Unauthenticated"
                       /\ aq[r].gout.bearer.code = aq[r].gout.fn.code

\* C11 (amended): AuthService answers 401 for MissingToken, InvalidToken and
\* TokenExpired and 403 for Forbidden, whatever the validator; the gRPC
\* interceptors answer Unauthenticated when no bearer credential can be
\* read, and otherwise return the validator's own Status unchanged.
C11_RejectionStatusByCause ==
    \A r \in DOMAIN aq :
        (aq[r].pc = "done" /\ AuthCause(r) # "Ok")
           => /\ aq[r].via = "rest"
                    => /\ aq[r].out.ok
                       /\ aq[r].out.status = IF AuthCause(r) = "Forbidden" THEN 403 ELSE 401
              /\ aq[r].via = "grpc"
                    => LET token == BearerToken(aq[r].req)
                           expected ==
                              IF token = None
                              THEN [code |-> "Unauthenticated",
                                    message |-> "Missing authorization header"]
                              ELSE [code |-> GrpcValidate(validator, token[1]).code,
                                    message |-> GrpcValidate(validator, token[1]).message]
                       IN  /\ ~aq[r].gout.fn.ok /\ ~aq[r].gout.bearer.ok
                           /\ aq[r].gout.fn.code = expected.code
                           /\ aq[r].gout.fn.message = expected.message
                           /\ aq[r].gout.bearer.code = expected.code
                           /\ aq[r].gout.bearer.message = expected.message

\* C11 witness: under a validator that cannot reach its token store, a REST
\* request was answered 401 and a gRPC request with the validator's status
\* Unavailable.
C11_Witness ==
    /\ validator = "unavailable"
    /\ \E r1, r2 \in DOMAIN aq :
          /\ aq[r1].via = "rest" /\ aq[r1].pc = "done"
          /\ aq[r1].validated # <<>> /\ aq[r1].out.status = 401
          /\ aq[r2].via = "grpc" /\ aq[r2].pc = "done"
          /\ aq[r2].validated # <<>> /\ aq[r2].gout.bearer.code = "Unavailable"

\* C12: an Authorization value that is not text, or does not start with
\* exactly "Bearer ", is handled as a missing credential: the validator is
\* not asked, the inner service is not called, AuthService answers 401
\* (Missing authorization token) and the interceptors Unauthenticated, even
\* under a validator that accepts every token.
C12_WrongSchemeIsMissing ==
    \A r \in DOMAIN aq :
        LET h == aq[r].req.headers.authorization
        IN  (/\ aq[r].pc # "none"
             /\ h # <<>>
             /\ \/ Len(h[1]) < 7
                \/ SubSeq(h[1], 1, 7) # <<"B", "e", "a", "r", "e", "r", " ">>
                \/ \E i \in 1..Len(h[1]) : h[1][i] = OpaqueByte)
               => /\ aq[r].validated = <<>>
                  /\ aq[r].innerCalls = 0
                  /\ aq[r].innerReq = <<>>
                  /\ aq[r].pc # "inner"
                  /\ (aq[r].via = "rest" /\ aq[r].pc = "done")
                        => /\ aq[r].out.ok
                           /\ aq[r].out.status = 401
                           /\ aq[r].out.body[4] = <<"Missing authorization token">>
                  /\ aq[r].via = "grpc"
                        => /\ ~aq[r].gout.bearer.ok /\ ~aq[r].gout.fn.ok
                           /\ aq[r].gout.bearer.code = "Unauthenticated"
                           /\ aq[r].gout.fn.code = "Unauthenticated"

\* C12 witness: under a validator that accepts every token, a Basic
\* credential met AuthService and a lower-case "bearer" one the interceptor.
C12_Witness ==
    /\ validator = "accept_all"
    /\ \E r1, r2 \in DOMAIN aq :
          /\ aq[r1].via = "rest" /\ aq[r1].pc = "done"
          /\ aq[r1].req.headers.authorization = <<<<"B", "a", "s", "i", "c", " ", "g">>>>
          /\ aq[r1].out.status = 401
          /\ aq[r2].via = "grpc" /\ aq[r2].pc = "done"
          /\ aq[r2].req.headers.authorization = <<<<"b", "e", "a", "r", "e", "r", " ", "g">>>>

\* ============================================================ JWT claims
\* The token this server issued at JwtEpoch for e seconds.
IssuedToken(e) == JwtEncode(ClaimsNew("u1", e, JwtEpoch), Secret)

\* C13 (as claimed): with the JWT validator a correctly signed token whose
\* expires_at has passed is rejected as TokenExpired, any other token that
\* fails to decode or verify as InvalidToken; both answers are 401 and
\* differ in their message.
C13_ExpiredAndInvalidDistinct ==
    \A r \in DOMAIN aq :
        (validator = "jwt" /\ aq[r].validated # <<>>)
           => /\ \A e \in {0, 1} :
                    (aq[r].validated[1] = IssuedToken(e) /\ JwtEpoch + e < aq[r].at)
                       => /\ aq[r].innerCalls = 0
                          /\ aq[r].pc = "done"
                                => /\ aq[r].out.status = 401
                                   /\ aq[r].out.body[4] = <<"Token has expired">>
              /\ aq[r].validated[1] \in JwtTokens \ {IssuedToken(0), IssuedToken(1)}
                    => /\ aq[r].innerCalls = 0
                       /\ aq[r].pc = "done"
                             => /\ aq[r].out.status = 401
                                /\ aq[r].out.body[4][1] = "Invalid token: "

\* C14 (as claimed): JwtConfig::validate succeeds only while expires_at is
\* strictly in the future: a token validated at or after its expires_at is
\* rejected and its request never reaches the inner service.
C14_ExpiredNeverValidates ==
    \A r \in DOMAIN aq :
        \A e \in {0, 1} :
            (/\ validator = "jwt"
             /\ aq[r].validated = <<IssuedToken(e)>>
             /\ JwtEpoch + e <= aq[r].at)
               => /\ aq[r].innerCalls = 0
                  /\ aq[r].pc # "inner"
                  /\ aq[r].pc = "done" => aq[r].out.status = 401

\* ======================================================= pipeline claims
\* The layers of a log, on the way in or on the way out.
Side(log, side) ==
    LET es == SelectSeq(log, LAMBDA e : e[2] = side)
    IN  [k \in 1..Len(es) |-> es[k][1]]

Reverse(q) == [k \in 1..Len(q) |-> q[Len(q) + 1 - k]]

\* C15 (as claimed): once with_default_layers has been applied, whatever
\* else was applied before or after it, every response produced by another
\* layer (auth, rate limit, timeout, panic recovery, CORS) passes through
\* JsonErrorService before it leaves.
C15_EveryLayerResponsePassesJsonError ==
    \A r \in DOMAIN pq :
        (/\ Has(stack, "JsonError")
         /\ pq[r].pc = "done"
         /\ pq[r].resp.by \in {"Auth", "RateLimit", "Timeout", "CatchPanic", "Cors"})
           => \E k \in 1..Len(pq[r].log) : pq[r].log[k] = <<"JsonError", "response">>

\* C16: a layer applied later is entered earlier and left later. Through
\* default_layers alone a request passes JsonError, [Cors], [Compression],
\* Timeout, Trace, the two request-id layers, CatchPanic and then the
\* handler, and the handler's response passes them in the reverse order;
\* through any stack of layers the request side follows the stack from
\* the outside in and the response side from the inside out.
C16_LayerOrder ==
    \A r \in DOMAIN pq :
        LET in == Side(pq[r].log, "request")
            out == Side(pq[r].log, "response")
            default ==
               <<"JsonError">>
                  \o (IF features.cors THEN <<"Cors">> ELSE <<>>)
                  \o (IF features.compression THEN <<"Compression">> ELSE <<>>)
                  \o <<"Timeout", "Trace", "PropagateRequestId", "SetRequestId",
                       "CatchPanic", "handler">>
        IN  /\ \A k \in 1..Len(in) :
                  in[k] = IF k <= Len(stack) THEN stack[Len(stack) + 1 - k] ELSE "handler"
            /\ \A j, k \in 1..Len(out) :
                  j < k => \E a, b \in 0..Len(stack) :
                              /\ a < b
                              /\ out[j] = (IF a = 0 THEN "handler" ELSE stack[a])
                              /\ out[k] = stack[b]
            /\ (pq[r].seen # <<>> /\ Len(stack) + 1 = Len(default) /\ Has(stack, "JsonError"))
                  => /\ in = default
                     /\ (pq[r].pc = "done" /\ pq[r].resp.by = "handler")
                           => out = Reverse(default)

\* C16 witness: with CORS and compression configured, a request went
\* through default_layers alone, the handler answered 404 and the response
\* left through all nine stations.
C16_Witness ==
    /\ features.cors /\ features.compression
    /\ Len(stack) = 8 /\ stack[8] = "JsonError"
    /\ \E r \in DOMAIN pq :
          /\ pq[r].pc = "done"
          /\ pq[r].resp.by = "handler" /\ pq[r].resp.status = 404
          /\ Len(Side(pq[r].log, "response")) = 9

\* The request-identification layers are part of the router (or server).
HasRequestId == Has(stack, "SetRequestId") \/ Has(stack, "GrpcRequestId")

\* C17 (as claimed): a request that arrives without x-request-id leaves the
\* default pipeline (REST or gRPC) with a response that carries, under
\* x-request-id, the identifier generated for it and seen by the handler.
C17_GeneratedIdReachesResponse ==
    \A r \in DOMAIN pq :
        (/\ HasRequestId
         /\ pq[r].pc = "done"
         /\ pq[r].req.headers.x_request_id = <<>>
         /\ pq[r].hresp # <<>>
         /\ pq[r].hresp[1].by = "handler"
         /\ pq[r].hresp[1].x_request_id = <<>>)
           => /\ pq[r].resp.x_request_id # <<>>
              /\ pq[r].resp.x_request_id = pq[r].seen[1].headers.x_request_id

\* C18 (as claimed): a request that arrives with x-request-id = v keeps it:
\* the handler sees v, the response (on which the handler set no identifier
\* of its own) carries v, and identifying the request once more changes
\* nothing.
C18_ExistingIdNeverMutated ==
    \A r \in DOMAIN pq :
        (/\ HasRequestId
         /\ pq[r].req.headers.x_request_id = <<<<"my-custom-id">>>>
         /\ pq[r].seen # <<>>)
           => /\ pq[r].seen[1].headers.x_request_id = <<<<"my-custom-id">>>>
              /\ \A l \in {"SetRequestId", "GrpcRequestId"} :
                    LET st == [req |-> pq[r].seen[1], uuid |-> nextUuid]
                    IN  LayerRequest(l, 1, st) = st
              /\ (/\ pq[r].pc = "done"
                  /\ pq[r].resp.by = "handler"
                  /\ pq[r].hresp[1].x_request_id = <<>>)
                    => pq[r].resp.x_request_id = <<<<"my-custom-id">>>>

\* C19 (as claimed): the request handed on by the request-identification
\* layer always carries a non-empty x-request-id; if none arrived it is a
\* newly generated UUID, and the UUIDs generated for different requests
\* differ.
C19_InnerAlwaysGetsNonEmptyId ==
    \A r \in DOMAIN pq :
        (HasRequestId /\ pq[r].seen # <<>>)
           => LET id == pq[r].seen[1].headers.x_request_id
              IN  /\ id # <<>>
                  /\ id[1] # <<>>
                  /\ pq[r].req.headers.x_request_id = <<>>
                        => /\ Len(id[1]) = 3 /\ id[1][1] = "uuid4"
                           /\ \A r2 \in DOMAIN pq \ {r} :
                                 pq[r2].seen # <<>>
                                    => pq[r2].seen[1].headers.x_request_id # id

\* C20 (as claimed): when the handler sets an x-request-id of its own on
\* the response, the response leaves with the request's identifier in its
\* place.
C20_HandlerIdOverwritten ==
    \A r \in DOMAIN pq :
        (/\ HasRequestId
         /\ pq[r].pc = "done"
         /\ pq[r].hresp # <<>>
         /\ pq[r].hresp[1].x_request_id = <<<<"handler-id">>>>)
           => pq[r].resp.x_request_id = pq[r].seen[1].headers.x_request_id

\* ============================================= error-normalization claims
\* The inner service answered request r with a response (not an Err) and
\* the layer has returned.
Answered(r) ==
    /\ pq[r].pc = "done"
    /\ pq[r].hresp # <<>>
    /\ pq[r].hresp[1].by = "handler"

JsonContentTypes == {"application/json", "application/json; charset=utf-8"}

\* The body is an ErrorEnvelope {code, message}.
IsEnvelope(body) == Len(body) = 4 /\ body[1] = "code" /\ body[3] = "message"

\* The layer rebuilt the response of request r: an error status (4xx or
\* 5xx) and a content type that is not JSON.
Rewritten(r) ==
    /\ Answered(r)
    /\ pq[r].hresp[1].status \in 400..599
    /\ pq[r].hresp[1].contentType \notin JsonContentTypes

\* C21 (as claimed): every response whose status is outside 2xx (1xx, 3xx,
\* 4xx or 5xx) and whose content type did not indicate JSON leaves the
\* layer with content type application/json and an envelope body, never
\* with its original body.
C21_NonSuccessIsEnvelope ==
    \A r \in DOMAIN pq :
        (/\ Answered(r)
         /\ pq[r].hresp[1].status \notin 200..299
         /\ pq[r].hresp[1].contentType \notin JsonContentTypes)
           => /\ pq[r].resp.contentType = "application/json"
              /\ IsEnvelope(pq[r].resp.body)
              /\ pq[r].resp.body # pq[r].hresp[1].body

\* C21 (amended): every response whose status is 4xx or 5xx and whose
\* content type did not indicate JSON leaves the layer with content type
\* application/json and an envelope body, never with its original body.
C21_ErrorIsEnvelope ==
    \A r \in DOMAIN pq :
        (/\ Answered(r)
         /\ pq[r].hresp[1].status \in 400..599
         /\ pq[r].hresp[1].contentType \notin JsonContentTypes)
           => /\ pq[r].resp.contentType = "application/json"
              /\ IsEnvelope(pq[r].resp.body)
              /\ pq[r].resp.body # pq[r].hresp[1].body

\* C21 witness: a 404 with a plain-text body left as a JSON envelope.
C21_Witness ==
    \E r \in DOMAIN pq :
        /\ Answered(r)
        /\ pq[r].hresp[1].status = 404
        /\ pq[r].hresp[1].contentType = "text/plain"
        /\ pq[r].hresp[1].body = <<"no such user">>
        /\ pq[r].resp.contentType = "application/json"
        /\ IsEnvelope(pq[r].resp.body)

\* C22: an error response with status s, a content type that is not JSON
\* and body text b leaves with status s and the envelope whose code is the
\* reason phrase of s in upper case with "_" for " " (404: NOT_FOUND) and
\* whose message is b if b is not empty and the environment is Development,
\* and the reason phrase of s (404: "Not Found") otherwise.
C22_EnvelopeContents ==
    \A r \in DOMAIN pq :
        (/\ Rewritten(r)
         /\ pq[r].hresp[1].body # FailingBody
         /\ CanonicalReason(pq[r].hresp[1].status) # None)
           => LET s == pq[r].hresp[1].status
                  b == pq[r].hresp[1].body
                  reason == CanonicalReason(s)[1]
                  code == pq[r].resp.body[2]
                  message == pq[r].resp.body[4]
              IN  /\ pq[r].resp.status = s
                  /\ IsEnvelope(pq[r].resp.body)
                  /\ Len(code) = Len(reason)
                  /\ \A i \in 1..Len(code) :
                        /\ reason[i] = " " => code[i] = "_"
                        /\ reason[i] # " " =>
                              \E k \in 1..26 :
                                  /\ code[i] = UpperCase[k]
                                  /\ reason[i] \in {UpperCase[k], LowerCase[k]}
                  /\ s = 404 => code = <<"N", "O", "T", "_", "F", "O", "U", "N", "D">>
                  /\ message = IF b # <<>> /\ ~features.production THEN b ELSE reason
                  /\ (s = 404 /\ (b = <<>> \/ features.production))
                        => message = <<"N", "o", "t", " ", "F", "o", "u", "n", "d">>

\* C22 witness: in Development a 404 with the text "no such user" left as
\* {code: NOT_FOUND, message: "no such user"}.
C22_Witness ==
    /\ ~features.production
    /\ \E r \in DOMAIN pq :
          /\ Rewritten(r)
          /\ pq[r].hresp[1].status = 404
          /\ pq[r].hresp[1].body = <<"no such user">>
          /\ pq[r].resp.body[2] = <<"N", "O", "T", "_", "F", "O", "U", "N", "D">>
          /\ pq[r].resp.body[4] = <<"no such user">>

\* C23: a response with a 2xx status leaves the layer as the inner service
\* produced it: same status, same headers (content type included), same
\* body, in either environment.
C23_SuccessPassesThrough ==
    \A r \in DOMAIN pq :
        (Answered(r) /\ pq[r].hresp[1].status \in 200..299)
           => pq[r].resp = pq[r].hresp[1]

\* C23 witness: in Production a 200 with a text body and a header of its
\* own went through.
C23_Witness ==
    /\ features.production
    /\ \E r \in DOMAIN pq :
          /\ Answered(r)
          /\ pq[r].hresp[1].status = 200
          /\ pq[r].hresp[1].contentType = "text/plain"
          /\ pq[r].hresp[1].body = <<"no such user">>
          /\ pq[r].hresp[1].x_request_id # <<>>

\* C24: a response with a status outside 2xx whose content type indicates
\* JSON leaves the layer unchanged (status, headers, body) in either
\* environment; in Production its body is not redacted.
C24_JsonErrorPassesThrough ==
    \A r \in DOMAIN pq :
        (/\ Answered(r)
         /\ pq[r].hresp[1].status \notin 200..299
         /\ pq[r].hresp[1].contentType \in JsonContentTypes)
           => pq[r].resp = pq[r].hresp[1]

\* C24 witness: in Production a 400 with content type application/json;
\* charset=utf-8 and the body {"custom":"error"} went through.
C24_Witness ==
    /\ features.production
    /\ \E r \in DOMAIN pq :
          /\ Answered(r)
          /\ pq[r].hresp[1].status = 400
          /\ pq[r].hresp[1].contentType = "application/json; charset=utf-8"
          /\ pq[r].hresp[1].body = <<"{\"custom\":\"error\"}">>
          /\ pq[r].resp.body = <<"{\"custom\":\"error\"}">>

\* C25: normalizing a response the layer has returned gives the same
\* response again (status, headers and body), in either environment.
C25_NormalizationIsFixedPoint ==
    \A r \in DOMAIN pq :
        pq[r].pc = "done" => JsonErrorResponse(pq[r].resp) = pq[r].resp

\* C25 witness: in Development a response was rebuilt with the original
\* body text as its message.
C25_Witness ==
    /\ ~features.production
    /\ \E r \in DOMAIN pq :
          /\ Rewritten(r)
          /\ pq[r].hresp[1].body = <<"no such user">>
          /\ pq[r].resp # pq[r].hresp[1]
          /\ pq[r].resp.body[4] = <<"no such user">>

\* C26: a rebuilt response has the status and every header of the original
\* other than content-type with their original values, and content type
\* application/json; it has no header the original had not.
C26_RewriteKeepsStatusAndHeaders ==
    \A r \in DOMAIN pq :
        Rewritten(r)
           => /\ pq[r].resp.status = pq[r].hresp[1].status
              /\ pq[r].resp.x_request_id = pq[r].hresp[1].x_request_id
              /\ pq[r].resp.contentType = "application/json"
              /\ DOMAIN pq[r].resp = DOMAIN pq[r].hresp[1]

\* C26 witness: a 500 that carried a header of its own was rebuilt.
C26_Witness ==
    \E r \in DOMAIN pq :
        /\ Rewritten(r)
        /\ pq[r].hresp[1].status = 500
        /\ pq[r].hresp[1].contentType = "text/plain"
        /\ pq[r].hresp[1].x_request_id = <<<<"handler-id">>>>
        /\ pq[r].resp.body # pq[r].hresp[1].body

\* C27: in Production the rebuilt response does not depend on the original
\* body: any inner response with the same status and headers and another
\* body that is not JSON gives the same output.
C27_ProductionHidesBody ==
    \A r \in DOMAIN pq :
        (features.production /\ Rewritten(r))
           => \A other \in InnerResponses :
                 (/\ other.by = "handler"
                  /\ other.status = pq[r].hresp[1].status
                  /\ other.contentType = pq[r].hresp[1].contentType
                  /\ other.x_request_id = pq[r].hresp[1].x_request_id)
                    => JsonErrorResponse(other) = pq[r].resp

\* C27 witness: in Production a 500 with an internal text as its body was
\* rebuilt.
C27_Witness ==
    /\ features.production
    /\ \E r \in DOMAIN pq :
          /\ Rewritten(r)
          /\ pq[r].hresp[1].status = 500
          /\ pq[r].hresp[1].body = <<"no such user">>

\* C28: the layer returns Err exactly when the inner service returned Err;
\* when reading the body of an error response fails, the body text counts
\* as empty and the layer still returns Ok with the envelope it builds for
\* an empty body.
C28_LayerNeverFailsItself ==
    \A r \in DOMAIN pq :
        (pq[r].pc = "done" /\ pq[r].hresp # <<>>)
           => /\ pq[r].resp.by = "err" <=> pq[r].hresp[1].by = "err"
              /\ (Rewritten(r) /\ pq[r].hresp[1].body = FailingBody)
                    => /\ pq[r].resp.by = "handler"
                       /\ pq[r].resp.contentType = "application/json"
                       /\ IsEnvelope(pq[r].resp.body)
                       /\ pq[r].resp.body[4] =
                             (IF CanonicalReason(pq[r].resp.status) = None
                              THEN <<"E", "r", "r", "o", "r">>
                              ELSE CanonicalReason(pq[r].resp.status)[1])

\* C28 witness: in Development a 500 whose body failed to be read left as
\* an envelope.
C28_Witness ==
    /\ ~features.production
    /\ \E r \in DOMAIN pq :
          /\ Rewritten(r)
          /\ pq[r].hresp[1].status = 500
          /\ pq[r].hresp[1].body = FailingBody
          /\ IsEnvelope(pq[r].resp.body)

\* ========================================================= tracing claims
\* The completion events logged for request r.
Events(r) == SelectSeq(pq[r].log, LAMBDA e : e.kind = "event")

\* C29: for a request whose result the tracing layer has returned, exactly
\* one completion event was logged, after the inner service resolved and
\* before the result was returned: with the status and the latency for an
\* Ok result, with the error marker and the latency for an Err result. No
\* completion event is logged for a request that has not completed.
C29_OneCompletionEvent ==
    \A r \in DOMAIN pq :
        /\ pq[r].pc # "done" => Len(Events(r)) = 0
        /\ pq[r].pc = "done" =>
              /\ Len(Events(r)) = 1
              /\ \E i, j, k \in 1..Len(pq[r].log) :
                    /\ i < j /\ j < k
                    /\ pq[r].log[i].kind = "inner resolved"
                    /\ pq[r].log[j].kind = "event"
                    /\ pq[r].log[k].kind = "returned"
              /\ Events(r)[1].latency_ms \in 0..now
              /\ pq[r].hresp[1].ok =>
                    /\ Events(r)[1].level = "INFO"
                    /\ Events(r)[1].status # <<>>
              /\ ~pq[r].hresp[1].ok =>
                    /\ Events(r)[1].level = "ERROR"
                    /\ Events(r)[1].status = <<>>
                    /\ Events(r)[1].message = "gRPC error"

\* C29 witness: the inner service resolved to Err some time after it was
\* called, and the error event with that latency was logged.
C29_Witness ==
    \E r \in DOMAIN pq :
        /\ pq[r].pc = "done"
        /\ ~pq[r].hresp[1].ok
        /\ Len(Events(r)) = 1
        /\ Events(r)[1].level = "ERROR"
        /\ Events(r)[1].latency_ms > 0

\* C30: the inner service is called with the request exactly as it arrived,
\* with or without x-request-id, and the caller gets exactly the result of
\* the inner service: the same response (status, headers, body) or the
\* same Err.
C30_TraceAltersNothing ==
    \A r \in DOMAIN pq :
        /\ pq[r].seen # <<>> => pq[r].seen[1] = pq[r].req
        /\ pq[r].pc = "done" => pq[r].resp = pq[r].hresp[1]

\* C30 witness: a request without x-request-id went through and the inner
\* service's response, which has no grpc-status, came back.
C30_Witness ==
    \E r \in DOMAIN pq :
        /\ pq[r].pc = "done"
        /\ pq[r].req.headers.x_request_id = <<>>
        /\ pq[r].span = <<<<"-">>>>
        /\ pq[r].hresp[1].ok
        /\ pq[r].hresp[1].grpc_status = <<>>
        /\ pq[r].resp = pq[r].hresp[1]


\* ------------------------------------------------------------------ C31
\* path ends in "." and one of toml, yaml, yml, json, in any letter case
HasStructuredExtension(path) ==
    \E ext \in {<<"t", "o", "m", "l">>, <<"y", "a", "m", "l">>, <<"y", "m", "l">>,
                <<"j", "s", "o", "n">>} :
        /\ Len(path) > Len(ext) + 1
        /\ path[Len(path) - Len(ext)] = "."
        /\ ToLowercase(SubSeq(path, Len(path) - Len(ext) + 1, Len(path))) = ext

\* C31: build uses as the configuration file only the last-added path
\* with a .toml/.yaml/.yml/.json extension, and returns NotFound exactly
\* when that file does not exist; with no such path it reads the
\* environment alone, and whether dotenv-style files or earlier structured
\* files exist changes nothing.
C31_LastStructuredFileDecides ==
    cfg.result # None =>
        LET files == cfg.config_files
            structured == {i \in 1..Len(files) : HasStructuredExtension(files[i])}
            result == cfg.result[1]
        IN  IF structured = {}
            THEN result.file = None /\ result.kind # "NotFound"
            ELSE LET last == CHOOSE i \in structured : \A j \in structured : j <= i
                 IN  /\ result.file = Some(files[last])
                     /\ result.kind = "NotFound" <=> files[last] \notin cfg.disk

\* build answered NotFound for the last structured file, while an earlier
\* structured file exists
C31_Witness ==
    /\ cfg.result # None
    /\ cfg.config_files = <<<<"c", "o", "n", "f", "i", "g", ".", "t", "o", "m", "l">>,
                            <<"a", "p", "p", ".", "J", "S", "O", "N">>>>
    /\ cfg.config_files[1] \in cfg.disk /\ cfg.config_files[2] \notin cfg.disk
    /\ cfg.result[1].kind = "NotFound"

\* ------------------------------------------------------------------ C32
\* a and b are the same text but for the case of their letters
EqIgnoreCase(a, b) ==
    /\ Len(a) = Len(b)
    /\ \A i \in 1..Len(a) :
          \/ a[i] = b[i]
          \/ \E k \in 1..Len(UpperCase) : {a[i], b[i]} = {UpperCase[k], LowerCase[k]}

\* C32: parsing an Environment never fails; it yields Production exactly
\* when the string is "production" or "prod" in any letter case, and
\* Development for every other string and when there is nothing to parse.
C32_EnvironmentFromStr ==
    (cfg.result # None /\ cfg.result[1].kind = "Ok") =>
        cfg.result[1].environment =
            IF /\ cfg.app_env # None
               /\ \/ EqIgnoreCase(cfg.app_env[1], <<"p", "r", "o", "d", "u", "c", "t", "i", "o", "n">>)
                  \/ EqIgnoreCase(cfg.app_env[1], <<"p", "r", "o", "d">>)
            THEN "Production"
            ELSE "Development"

\* the variable held "PROD" and the configuration built is for Production
C32_Witness ==
    /\ cfg.result # None
    /\ cfg.app_env = Some(<<"P", "R", "O", "D">>)
    /\ cfg.result[1].kind = "Ok"
    /\ cfg.result[1].environment = "Production"


\* ------------------------------------------------------------------ C33
\* The handler was called with request r and the request was answered
\* while the handler was still running.
TimedOut(r) ==
    /\ pq[r].pc = "done"
    /\ pq[r].seen # <<>>
    /\ pq[r].hresp = <<>>

\* The handler was called with request r and panicked.
Panicked(r) ==
    /\ pq[r].pc = "done"
    /\ pq[r].hresp = <<HandlerPanic>>

\* C33: with the default stack, a handler that does not finish within the
\* timeout yields 408 and a handler that panics yields 500, and both leave
\* as an ErrorEnvelope with content type application/json, with the codes
\* REQUEST_TIMEOUT and INTERNAL_SERVER_ERROR.
C33_TimeoutAndPanicAreEnvelopes ==
    \A r \in DOMAIN pq :
        Has(stack, "JsonError") =>
            /\ TimedOut(r) =>
                  /\ pq[r].resp.status = 408
                  /\ pq[r].resp.contentType = "application/json"
                  /\ IsEnvelope(pq[r].resp.body)
                  /\ pq[r].resp.body[2] = <<"R", "E", "Q", "U", "E", "S", "T", "_",
                                            "T", "I", "M", "E", "O", "U", "T">>
            /\ Panicked(r) =>
                  /\ pq[r].resp.status = 500
                  /\ pq[r].resp.contentType = "application/json"
                  /\ IsEnvelope(pq[r].resp.body)
                  /\ pq[r].resp.body[2] = <<"I", "N", "T", "E", "R", "N", "A", "L", "_",
                                            "S", "E", "R", "V", "E", "R", "_",
                                            "E", "R", "R", "O", "R">>

\* C33 witness: behind default_layers alone the timeout elapsed while the
\* handler was running, and the 408 left as an envelope.
C33_Witness ==
    /\ Has(stack, "JsonError") /\ Has(stack, "Timeout")
    /\ \E r \in DOMAIN pq :
          /\ TimedOut(r)
          /\ pq[r].resp.status = 408
          /\ IsEnvelope(pq[r].resp.body)
          /\ pq[r].resp.body[4] = <<"R", "e", "q", "u", "e", "s", "t", " ",
                                    "T", "i", "m", "e", "o", "u", "t">>


\* ------------------------------------------------------------------ C34
\* C34 (as claimed): in both default stacks the request_id recorded in the
\* tracing span of a request equals the x-request-id the handler observes
\* for it; "-" is recorded only when the handler sees no identifier either.
C34_SpanIdIsHandlerId ==
    \A r \in DOMAIN pq :
        (/\ Has(stack, "Trace") \/ Has(stack, "GrpcTrace")
         /\ pq[r].seen # <<>>)
           => LET id == pq[r].seen[1].headers.x_request_id
              IN  pq[r].span = Some(IF id = None THEN <<"-">> ELSE id[1])

\* ------------------------------------------------------------------ C35
\* C35 (as claimed, for the requests that reached the tracing layer): every
\* request that entered the default REST pipeline and was answered, by the
\* timeout layer included, has exactly one completion event of the tracing
\* layer.
C35_OneCompletionEventPerAnswer ==
    \A r \in DOMAIN pq :
        (Has(stack, "Trace") /\ pq[r].span # <<>> /\ pq[r].pc = "done")
           => Cardinality({k \in 1..Len(pq[r].log) :
                              pq[r].log[k] = <<"Trace", "response">>}) = 1


\* ------------------------------------------------------------------ C36
\* C36: in every middleware service, call invokes exactly the inner
\* instance on which poll_ready was driven to readiness and leaves a fresh
\* clone in its place: no instance is invoked that was not polled ready,
\* none is invoked twice, and no service or clone holds an instance that
\* was invoked or that another one holds.
C36_CallInvokesThePolledInstance ==
    /\ \A k \in DOMAIN svc.invoked :
          /\ svc.invoked[k].ready
          /\ svc.invoked[k].instance = svc.invoked[k].polled
          /\ \A j \in DOMAIN svc.invoked :
                j # k => svc.invoked[j].instance # svc.invoked[k].instance
    /\ \A h \in DOMAIN svc.handles :
          /\ \A k \in DOMAIN svc.invoked : svc.invoked[k].instance # svc.handles[h]
          /\ \A g \in DOMAIN svc.handles : g # h => svc.handles[g] # svc.handles[h]

\* C36 witness: a service and its clone were each polled ready and called,
\* and each now holds an instance that has not been polled.
C36_Witness ==
    /\ Len(svc.handles) = 2
    /\ Len(svc.invoked) = 2
    /\ svc.invoked[1].service # svc.invoked[2].service
    /\ \A h \in DOMAIN svc.handles : ~svc.ready[svc.handles[h]]


\* ------------------------------------------------------------------ C37
\* C37: for every validator and every request, AuthInterceptor::new(v)
\* .into_fn() and bearer_auth(|t| v.validate(t)) return the same result:
\* the same Ok(request) with the request unchanged, or an Err with the same
\* status code and message.
C37_InterceptorsInterchangeable ==
    \A r \in DOMAIN aq :
        (aq[r].pc = "done" /\ aq[r].via = "grpc")
           => /\ aq[r].gout.fn.ok = aq[r].gout.bearer.ok
              /\ aq[r].gout.fn.code = aq[r].gout.bearer.code
              /\ aq[r].gout.fn.message = aq[r].gout.bearer.message
              /\ aq[r].gout.fn.req = aq[r].gout.bearer.req
              /\ aq[r].gout.fn.ok => aq[r].gout.fn.req = aq[r].req

\* C37 witness: one request without a bearer token was refused by both
\* with unauthenticated "Missing authorization header", and another was
\* handed on by both as it came.
C37_Witness ==
    \E r1, r2 \in DOMAIN aq :
        /\ aq[r1].pc = "done" /\ aq[r1].via = "grpc"
        /\ aq[r1].gout.fn.code = "Unauthenticated"
        /\ aq[r1].gout.bearer.message = "Missing authorization header"
        /\ aq[r2].pc = "done" /\ aq[r2].via = "grpc"
        /\ aq[r2].gout.fn.ok /\ aq[r2].gout.bearer.ok
        /\ aq[r2].gout.bearer.req = aq[r2].req


\* ------------------------------------------------------------------ C38
\* C38 (as claimed): for every num_requests > 0 passed to with_rate_limit,
\* the limiter is built and its capacity is exactly num_requests: the
\* conversion to 32 bits neither changes the value nor yields 0.
C38_CapacityIsNumRequests ==
    rlArgs # None =>
        /\ rlArgs[1].outcome = "built"
        /\ rlArgs[1].num_requests.hi = 0
        /\ capacity = rlArgs[1].num_requests.lo

====
